---- MODULE Spec2Model ----
(***************************************************************************)
(* A model of editpy's editing core: core/buffer.py (Buffer, UndoAction),  *)
(* utils/search.py (SearchEngine) and the parts of ui/input_handler.py     *)
(* (InputHandler) that move the cursor and mutate a buffer.                *)
(*                                                                         *)
(* A Buffer object is the record `buf`, an InputHandler the record `ih`.   *)
(* Every method is an operator from the object (and its arguments) to the  *)
(* object after the call, its return value and the exception it raised.    *)
(* Bytes are integers 0..255, a bytes/bytearray value is a sequence of     *)
(* them (index 0 of Python is index 1 here), a str is a sequence of code   *)
(* points.                                                                 *)
(***************************************************************************)
EXTENDS Integers, Sequences, FiniteSets, TLC

VARIABLES
    buf,     \* the Buffer object (the active buffer)
    ih,      \* the InputHandler object (with the SearchEngine's last results)
    cfg,     \* the construction argument: Buffer.__init__'s initial_data
    disk,    \* what save_file last wrote; NoDisk before any save
    pc,      \* "idle", "replace_all" inside SearchEngine.replace_all's loop, or
             \* "exited" once the editor's main loop has ended
    ra,      \* replace_all's arguments and its count while pc = "replace_all"
    wm,      \* the WindowManager's buffers and active_buffer_index
    nops     \* mutating calls made so far (bounds the runs)

vars == <<buf, ih, cfg, disk, pc, ra, wm, nops>>

----------------------------------------------------------------------------
(* Bounds of the model *)

\* mutating calls in one run of Spec
MaxOps == 2
\* longest content a growing operation may produce
MaxLen == 4
\* mutations in one run of SpecCap (one more than the logs' capacity, and one)
MaxMut == 102
\* replace_all's count is exact up to MaxCount
MaxCount == 8

(* Program constants *)

\* deque(maxlen=100) of undo_stack and redo_stack
LogCap == 100
\* Buffer.CHUNK_SIZE = 1024 * 1024
CHUNK_SIZE == 1048576
\* the cache size _load_chunk compares against
CacheCap == 5
\* Buffer.__init__: self.bytes_per_line = 16
DefaultBytesPerLine == 16

----------------------------------------------------------------------------
(* Python's sequence primitives *)

Max(a, b) == IF a >= b THEN a ELSE b
Min(a, b) == IF a <= b THEN a ELSE b

Last(s) == s[Len(s)]
Front(s) == SubSeq(s, 1, Len(s) - 1)

RECURSIVE Reverse(_)
Reverse(s) == IF s = <<>> THEN <<>> ELSE Append(Reverse(Tail(s)), Head(s))

\* a slice bound i of a sequence of length n: negative counts from the end,
\* and the result is clamped into 0..n
SliceIdx(i, n) == IF i < 0 THEN Max(i + n, 0) ELSE Min(i, n)

\* s[a:b]
Slice(s, a, b) ==
    LET lo == SliceIdx(a, Len(s))
        hi == SliceIdx(b, Len(s))
    IN  IF hi <= lo THEN <<>> ELSE SubSeq(s, lo + 1, hi)

\* s[a:b] = x  (never raises; an empty or inverted range inserts at a)
SliceAssign(s, a, b, x) ==
    LET lo == SliceIdx(a, Len(s))
        hi == Max(lo, SliceIdx(b, Len(s)))
    IN  SubSeq(s, 1, lo) \o x \o SubSeq(s, hi + 1, Len(s))

\* s.insert(i, v)
ListInsert(s, i, v) ==
    LET lo == SliceIdx(i, Len(s))
    IN  SubSeq(s, 1, lo) \o <<v>> \o SubSeq(s, lo + 1, Len(s))

\* whether s[i] exists (otherwise s[i], s[i] = v and del s[i] raise IndexError)
HasIndex(s, i) == -Len(s) <= i /\ i < Len(s)
ItemIdx(s, i) == IF i < 0 THEN i + Len(s) + 1 ELSE i + 1
\* s[i] = v
ItemAssign(s, i, v) == [s EXCEPT ![ItemIdx(s, i)] = v]
\* del s[i]
ItemDel(s, i) == SubSeq(s, 1, ItemIdx(s, i) - 1) \o SubSeq(s, ItemIdx(s, i) + 1, Len(s))

\* a deque without maxlen
DequeAppend_unbounded(q, a) == Append(q, a)

\* deque(maxlen=LogCap).append(a): a full deque drops its oldest entry
DequeAppend(q, a) ==
    IF Len(q) >= LogCap THEN Append(Tail(q), a) ELSE Append(q, a)

----------------------------------------------------------------------------
(* str <-> bytes *)

\* str.encode('utf-8') for code points below 0x800
RECURSIVE Utf8Encode(_)
Utf8Encode(s) ==
    IF s = <<>> THEN <<>>
    ELSE LET c == Head(s)
         IN  (IF c < 128 THEN <<c>>
              ELSE <<192 + (c \div 64), 128 + (c % 64)>>) \o Utf8Encode(Tail(s))

\* str.encode('utf-8'): code points below 128 encode to themselves
EncodeText(s) ==
    IF \A i \in 1..Len(s) : s[i] < 128 THEN s ELSE Utf8Encode(s)

IsCont(b) == 128 <= b /\ b <= 191

\* bytes.decode('utf-8', errors='replace') for one- and two-byte sequences:
\* an invalid or truncated byte becomes U+FFFD
RECURSIVE Utf8Decode(_)
Utf8Decode(bs) ==
    IF bs = <<>> THEN <<>>
    ELSE LET b == Head(bs)
         IN  IF b < 128 THEN <<b>> \o Utf8Decode(Tail(bs))
             ELSE IF 194 <= b /\ b <= 223 /\ Len(bs) >= 2 /\ IsCont(bs[2])
                  THEN <<(b - 192) * 64 + (bs[2] - 128)>> \o Utf8Decode(Tail(Tail(bs)))
                  ELSE <<65533>> \o Utf8Decode(Tail(bs))

----------------------------------------------------------------------------
(* UndoAction and Buffer *)

UndoAction(position, old_data, new_data, action_type) ==
    [position |-> position, old_data |-> old_data, new_data |-> new_data,
     action_type |-> action_type, batch_actions |-> <<>>]

\* A file mapping (mmap) is the file it maps: its size and the seed its bytes
\* are computed from; NoMap is None. The file is not written while mapped.
NoMap == [open |-> FALSE, size |-> 0, seed |-> 0]
\* a seed below zero stands for a text file: lines of -seed bytes, each the
\* letter 'A' repeated and a line feed
FileByte(f, i) ==
    IF f.seed >= 0 THEN (f.seed + i) % 251
    ELSE IF (i + 1) % (-f.seed) = 0 THEN 10 ELSE 65
\* file_map[a:b]
FileSlice(f, a, b) ==
    LET lo == SliceIdx(a, f.size)
        hi == SliceIdx(b, f.size)
    IN  [i \in 1..(hi - lo) |-> FileByte(f, lo + i - 1)]

\* Buffer.__init__
BufferInit(initial_data) ==
    [data |-> initial_data, modified |-> FALSE, filename |-> "",
     cursor_pos |-> 0, undo_stack |-> <<>>, redo_stack |-> <<>>,
     bytes_per_line |-> DefaultBytesPerLine,
     is_code_file |-> FALSE, code_lines |-> <<>>,
     cursor_line |-> 0, cursor_column |-> 0, edit_mode |-> FALSE,
     file_size |-> 0, file_map |-> NoMap, is_large_file |-> FALSE,
     loaded_chunks |-> <<>>]

\* the outcome of a call: the object after it, the value returned, the
\* exception raised ("none" when the call returned)
Outcome(b, r, e) == [b |-> b, ret |-> r, exc |-> e]

\* Buffer.get_size
get_size(b) == IF b.is_large_file THEN b.file_size ELSE Len(b.data)

\* the clamp that ends delete_byte, undo and redo
ClampCursor(b) ==
    IF b.cursor_pos >= Len(b.data)
    THEN [b EXCEPT !.cursor_pos = Max(0, Len(b.data) - 1)]
    ELSE b

\* insert_byte recording the position as given instead of the clamped one
insert_byte_unclamped(b, position, value) ==
    IF ~(0 <= value /\ value <= 255) THEN Outcome(b, "None", "ValueError")
    ELSE LET action == UndoAction(position, <<>>, <<value>>, "insert")
         IN  Outcome([b EXCEPT !.undo_stack = DequeAppend(@, action),
                               !.redo_stack = <<>>,
                               !.data = ListInsert(@, position, value),
                               !.modified = TRUE],
                     "None", "none")

\* insert_byte without the check of the value
insert_byte_unchecked(b, position, value) ==
    LET p == Max(0, Min(position, Len(b.data)))
        action == UndoAction(p, <<>>, <<value>>, "insert")
    IN  Outcome([b EXCEPT !.undo_stack = DequeAppend(@, action),
                          !.redo_stack = <<>>,
                          !.data = ListInsert(@, p, value),
                          !.modified = TRUE],
                "None", "none")

\* Buffer.insert_byte
insert_byte(b, position, value) ==
    IF ~(0 <= value /\ value <= 255) THEN Outcome(b, "None", "ValueError")
    ELSE LET p == Max(0, Min(position, Len(b.data)))
             action == UndoAction(p, <<>>, <<value>>, "insert")
         IN  Outcome([b EXCEPT !.undo_stack = DequeAppend(@, action),
                               !.redo_stack = <<>>,
                               !.data = ListInsert(@, p, value),
                               !.modified = TRUE],
                     "None", "none")

\* Buffer.delete_byte
delete_byte(b, position) ==
    IF ~(0 <= position /\ position < Len(b.data)) THEN Outcome(b, "None", "none")
    ELSE LET action == UndoAction(position, <<b.data[position + 1]>>, <<>>, "delete")
         IN  Outcome(ClampCursor([b EXCEPT !.undo_stack = DequeAppend(@, action),
                                           !.redo_stack = <<>>,
                                           !.data = ItemDel(@, position),
                                           !.modified = TRUE]),
                     "None", "none")

\* replace_byte without the test of the value already held
replace_byte_recording(b, position, value) ==
    IF ~(0 <= value /\ value <= 255) THEN Outcome(b, "None", "ValueError")
    ELSE IF ~(0 <= position /\ position < Len(b.data)) THEN Outcome(b, "None", "none")
    ELSE LET action == UndoAction(position, <<b.data[position + 1]>>, <<value>>, "replace")
         IN  Outcome([b EXCEPT !.undo_stack = DequeAppend(@, action),
                               !.redo_stack = <<>>,
                               !.data = ItemAssign(@, position, value),
                               !.modified = TRUE],
                     "None", "none")

\* Buffer.replace_byte
replace_byte(b, position, value) ==
    IF ~(0 <= value /\ value <= 255) THEN Outcome(b, "None", "ValueError")
    ELSE IF ~(0 <= position /\ position < Len(b.data)) THEN Outcome(b, "None", "none")
    ELSE IF b.data[position + 1] = value THEN Outcome(b, "None", "none")
    ELSE LET action == UndoAction(position, <<b.data[position + 1]>>, <<value>>, "replace")
         IN  Outcome([b EXCEPT !.undo_stack = DequeAppend(@, action),
                               !.redo_stack = <<>>,
                               !.data = ItemAssign(@, position, value),
                               !.modified = TRUE],
                     "None", "none")

\* one sub-action of a batch, as Buffer.undo reverts it
UndoBatchAction(b, a) ==
    IF a.action_type = "replace_range"
    THEN [b EXCEPT !.data = SliceAssign(@, a.position,
                                        a.position + Len(a.new_data), a.old_data)]
    ELSE IF a.action_type = "replace_line" /\ b.is_code_file
              /\ 0 <= a.position /\ a.position < Len(b.code_lines)
    THEN [b EXCEPT !.code_lines[a.position + 1] = Utf8Decode(a.old_data)]
    ELSE b

\* one sub-action of a batch, as Buffer.redo replays it
RedoBatchAction(b, a) ==
    IF a.action_type = "replace_range"
    THEN [b EXCEPT !.data = SliceAssign(@, a.position,
                                        a.position + Len(a.old_data), a.new_data)]
    ELSE IF a.action_type = "replace_line" /\ b.is_code_file
              /\ 0 <= a.position /\ a.position < Len(b.code_lines)
    THEN [b EXCEPT !.code_lines[a.position + 1] = Utf8Decode(a.new_data)]
    ELSE b

\* for batch_action in reversed(action.batch_actions)
RECURSIVE UndoBatch(_, _)
UndoBatch(b, actions) ==
    IF actions = <<>> THEN b
    ELSE UndoBatch(UndoBatchAction(b, Last(actions)), Front(actions))

\* for batch_action in action.batch_actions
RECURSIVE RedoBatch(_, _)
RedoBatch(b, actions) ==
    IF actions = <<>> THEN b
    ELSE RedoBatch(RedoBatchAction(b, Head(actions)), Tail(actions))

\* the branch of Buffer.undo that reverts `action` (lines 271-303); the
\* exception is the IndexError of an indexing that has no such item
UndoApply(b, action) ==
    CASE action.action_type = "batch_replace" ->
            Outcome(UndoBatch(b, action.batch_actions), "None", "none")
      [] action.action_type = "insert" ->
            IF HasIndex(b.data, action.position)
            THEN Outcome([b EXCEPT !.data = ItemDel(@, action.position)], "None", "none")
            ELSE Outcome(b, "None", "IndexError")
      [] action.action_type = "delete" ->
            IF action.old_data # <<>>
            THEN Outcome([b EXCEPT !.data = ListInsert(@, action.position,
                                                       action.old_data[1])],
                         "None", "none")
            ELSE Outcome(b, "None", "IndexError")
      [] action.action_type = "replace" ->
            IF action.old_data # <<>> /\ HasIndex(b.data, action.position)
            THEN Outcome([b EXCEPT !.data = ItemAssign(@, action.position,
                                                       action.old_data[1])],
                         "None", "none")
            ELSE Outcome(b, "None", "IndexError")
      [] action.action_type = "replace_range" ->
            Outcome([b EXCEPT !.data = SliceAssign(@, action.position,
                                                   action.position + Len(action.new_data),
                                                   action.old_data),
                              !.cursor_pos = action.position],
                    "None", "none")
      [] action.action_type = "replace_line" /\ b.is_code_file ->
            IF 0 <= action.position /\ action.position < Len(b.code_lines)
            THEN Outcome([b EXCEPT !.code_lines[action.position + 1] =
                                        Utf8Decode(action.old_data),
                                   !.cursor_line = action.position,
                                   !.cursor_column = 0],
                         "None", "none")
            ELSE Outcome(b, "None", "none")
      [] OTHER -> Outcome(b, "None", "none")

\* the branch of Buffer.redo that replays `action` (lines 320-351)
RedoApply(b, action) ==
    CASE action.action_type = "batch_replace" ->
            Outcome(RedoBatch(b, action.batch_actions), "None", "none")
      [] action.action_type = "insert" ->
            IF action.new_data # <<>>
            THEN Outcome([b EXCEPT !.data = ListInsert(@, action.position,
                                                       action.new_data[1])],
                         "None", "none")
            ELSE Outcome(b, "None", "IndexError")
      [] action.action_type = "delete" ->
            IF HasIndex(b.data, action.position)
            THEN Outcome([b EXCEPT !.data = ItemDel(@, action.position)], "None", "none")
            ELSE Outcome(b, "None", "IndexError")
      [] action.action_type = "replace" ->
            IF action.new_data # <<>> /\ HasIndex(b.data, action.position)
            THEN Outcome([b EXCEPT !.data = ItemAssign(@, action.position,
                                                       action.new_data[1])],
                         "None", "none")
            ELSE Outcome(b, "None", "IndexError")
      [] action.action_type = "replace_range" ->
            Outcome([b EXCEPT !.data = SliceAssign(@, action.position,
                                                   action.position + Len(action.old_data),
                                                   action.new_data),
                              !.cursor_pos = action.position + Len(action.new_data)],
                    "None", "none")
      [] action.action_type = "replace_line" /\ b.is_code_file ->
            IF 0 <= action.position /\ action.position < Len(b.code_lines)
            THEN Outcome([b EXCEPT !.code_lines[action.position + 1] =
                                        Utf8Decode(action.new_data),
                                   !.cursor_line = action.position,
                                   !.cursor_column = 0],
                         "None", "none")
            ELSE Outcome(b, "None", "none")
      [] OTHER -> Outcome(b, "None", "none")

\* undo leaving modified as it was
undo_keeps_modified(b) ==
    IF b.undo_stack = <<>> THEN Outcome(b, "False", "none")
    ELSE LET action == Last(b.undo_stack)
             moved == [b EXCEPT !.undo_stack = Front(@),
                                !.redo_stack = DequeAppend(@, action)]
             r == UndoApply(moved, action)
         IN  IF r.exc # "none" THEN r
             ELSE Outcome(IF ~r.b.is_code_file THEN ClampCursor(r.b) ELSE r.b,
                          "True", "none")

\* Buffer.undo. An exception leaves the action moved to redo_stack and
\* nothing else done.
undo(b) ==
    IF b.undo_stack = <<>> THEN Outcome(b, "False", "none")
    ELSE LET action == Last(b.undo_stack)
             moved == [b EXCEPT !.undo_stack = Front(@),
                                !.redo_stack = DequeAppend(@, action)]
             r == UndoApply(moved, action)
             m == [r.b EXCEPT !.modified = (r.b.undo_stack # <<>>)]
         IN  IF r.exc # "none" THEN r
             ELSE Outcome(IF ~m.is_code_file THEN ClampCursor(m) ELSE m, "True", "none")

\* Buffer.redo
redo(b) ==
    IF b.redo_stack = <<>> THEN Outcome(b, "False", "none")
    ELSE LET action == Last(b.redo_stack)
             moved == [b EXCEPT !.redo_stack = Front(@),
                                !.undo_stack = DequeAppend(@, action)]
             r == RedoApply(moved, action)
             m == [r.b EXCEPT !.modified = TRUE]
         IN  IF r.exc # "none" THEN r
             ELSE Outcome(IF ~m.is_code_file THEN ClampCursor(m) ELSE m, "True", "none")

\* '\n'.join(lines)
RECURSIVE JoinLines(_)
JoinLines(lines) ==
    IF lines = <<>> THEN <<>>
    ELSE IF Len(lines) = 1 THEN lines[1]
    ELSE lines[1] \o <<10>> \o JoinLines(Tail(lines))

\* what save_file writes: the joined lines, the mapping, or the data; the
\* lines of a mapped text, which the model keeps as ranges of the file, are
\* written as those ranges
SavedBytes(b) ==
    IF b.is_code_file
    THEN [whole_map |-> FALSE,
          bytes |-> IF b.is_large_file THEN b.code_lines
                    ELSE EncodeText(JoinLines(b.code_lines))]
    ELSE IF b.is_large_file /\ b.file_map.open THEN [whole_map |-> TRUE, bytes |-> <<>>]
    ELSE [whole_map |-> FALSE, bytes |-> b.data]

\* Buffer.insert_text; column and text index the characters of the line
insert_text(b, line, column, text) ==
    IF ~b.is_code_file \/ line >= Len(b.code_lines) THEN Outcome(b, "None", "none")
    ELSE IF ~HasIndex(b.code_lines, line) THEN Outcome(b, "None", "IndexError")
    ELSE LET current_line == b.code_lines[ItemIdx(b.code_lines, line)]
             col == Min(column, Len(current_line))
             new_line == Slice(current_line, 0, col) \o text
                            \o Slice(current_line, col, Len(current_line))
         IN  Outcome([b EXCEPT !.code_lines = ItemAssign(@, line, new_line),
                               !.cursor_column = col + Len(text),
                               !.modified = TRUE,
                               !.redo_stack = <<>>],
                     "None", "none")

\* delete_text leaving redo_stack as it is
delete_text_keeps_redo(b, line, start_col, end_col) ==
    IF ~b.is_code_file \/ line >= Len(b.code_lines) THEN Outcome(b, "None", "none")
    ELSE IF ~HasIndex(b.code_lines, line) THEN Outcome(b, "None", "IndexError")
    ELSE LET current_line == b.code_lines[ItemIdx(b.code_lines, line)]
             start == Min(start_col, Len(current_line))
             end == Min(end_col, Len(current_line))
             new_line == Slice(current_line, 0, start)
                            \o Slice(current_line, end, Len(current_line))
         IN  Outcome([b EXCEPT !.code_lines = ItemAssign(@, line, new_line),
                               !.cursor_column = start,
                               !.modified = TRUE],
                     "None", "none")

\* Buffer.delete_text
delete_text(b, line, start_col, end_col) ==
    IF ~b.is_code_file \/ line >= Len(b.code_lines) THEN Outcome(b, "None", "none")
    ELSE IF ~HasIndex(b.code_lines, line) THEN Outcome(b, "None", "IndexError")
    ELSE LET current_line == b.code_lines[ItemIdx(b.code_lines, line)]
             start == Min(start_col, Len(current_line))
             end == Min(end_col, Len(current_line))
             new_line == Slice(current_line, 0, start)
                            \o Slice(current_line, end, Len(current_line))
         IN  Outcome([b EXCEPT !.code_lines = ItemAssign(@, line, new_line),
                               !.cursor_column = start,
                               !.modified = TRUE,
                               !.redo_stack = <<>>],
                     "None", "none")

\* Buffer.insert_line
insert_line(b, line, text) ==
    IF ~b.is_code_file THEN Outcome(b, "None", "none")
    ELSE LET at == Min(line, Len(b.code_lines))
         IN  Outcome([b EXCEPT !.code_lines = ListInsert(@, at, text),
                               !.cursor_line = IF @ >= at THEN @ + 1 ELSE @,
                               !.modified = TRUE,
                               !.redo_stack = <<>>],
                     "None", "none")

\* Buffer.delete_line
delete_line(b, line) ==
    IF ~b.is_code_file \/ line >= Len(b.code_lines) THEN Outcome(b, "None", "none")
    ELSE IF ~HasIndex(b.code_lines, line) THEN Outcome(b, "None", "IndexError")
    ELSE LET lines == ItemDel(b.code_lines, line)
         IN  Outcome([b EXCEPT !.code_lines = lines,
                               !.cursor_line = IF @ > line THEN @ - 1
                                               ELSE IF @ >= Len(lines)
                                               THEN Max(0, Len(lines) - 1)
                                               ELSE @,
                               !.modified = TRUE,
                               !.redo_stack = <<>>],
                     "None", "none")

\* str.splitlines() of a text whose only line boundary is "\n"
RECURSIVE SplitLines(_)
SplitLines(text) ==
    IF text = <<>> THEN <<>>
    ELSE LET nls == {i \in 1..Len(text) : text[i] = 10}
             nl == CHOOSE i \in nls : \A j \in nls : i <= j
         IN  IF nls = {} THEN <<text>>
             ELSE <<SubSeq(text, 1, nl - 1)>> \o SplitLines(SubSeq(text, nl + 1, Len(text)))

\* Buffer.load_file of a resident file named "f" that _detect_file_type takes
\* for text in a language it knows
load_text_file(b, content) ==
    [b EXCEPT !.filename = "f", !.modified = FALSE, !.cursor_pos = 0,
              !.undo_stack = <<>>, !.redo_stack = <<>>,
              !.file_size = Len(content), !.is_large_file = FALSE,
              !.data = content,
              !.is_code_file = TRUE, !.edit_mode = TRUE,
              !.code_lines = SplitLines(Utf8Decode(content))]

\* save_file taking the new filename and clearing modified before it writes
save_file_eager(b, filename, io_ok) ==
    LET save_filename == IF filename # "" THEN filename ELSE b.filename
        named == [b EXCEPT !.filename = save_filename, !.modified = FALSE]
    IN  IF save_filename = "" THEN Outcome(b, "False", "none")
        ELSE IF ~io_ok THEN Outcome(named, "None", "IOError")
        ELSE Outcome(named, "True", "none")

\* Buffer.save_file; filename "" is None, io_ok is whether the write succeeds
save_file(b, filename, io_ok) ==
    LET save_filename == IF filename # "" THEN filename ELSE b.filename
    IN  IF save_filename = "" THEN Outcome(b, "False", "none")
        ELSE IF ~io_ok THEN Outcome(b, "None", "IOError")
        ELSE Outcome([b EXCEPT !.filename = save_filename, !.modified = FALSE],
                     "True", "none")

----------------------------------------------------------------------------
(* Chunked access *)

\* a cached chunk: bytearray(file_map[start:start + length]), kept as the
\* range it copies
Chunk(start, length) == [start |-> start, length |-> length]

MinOf(S) == CHOOSE x \in S : \A y \in S : x <= y

\* d[k] = v of a dict
DictSet(d, k, v) == [x \in (DOMAIN d) \cup {k} |-> IF x = k THEN v ELSE d[x]]
\* del d[k]
DictDel(d, k) == [x \in (DOMAIN d) \ {k} |-> d[x]]

\* the eviction that ends _load_chunk (lines 91-94)
Evict(chunks, chunk_index) ==
    IF Cardinality(DOMAIN chunks) > CacheCap /\ MinOf(DOMAIN chunks) # chunk_index
    THEN DictDel(chunks, MinOf(DOMAIN chunks))
    ELSE chunks

\* Buffer._load_chunk
load_chunk(b, chunk_index) ==
    LET start_pos == chunk_index * CHUNK_SIZE
        end_pos == Min(start_pos + CHUNK_SIZE, b.file_size)
    IN  IF ~b.file_map.open THEN b
        ELSE IF start_pos >= b.file_size
        THEN [b EXCEPT !.loaded_chunks = DictSet(@, chunk_index, Chunk(start_pos, 0))]
        ELSE [b EXCEPT !.loaded_chunks =
                Evict(DictSet(@, chunk_index, Chunk(start_pos, end_pos - start_pos)),
                      chunk_index)]

\* Buffer.get_line: the bytes of the line (the ASCII column is AsciiStr of
\* them); KeyError when the chunk could not be loaded
get_line(b, line_number) ==
    IF b.is_large_file
    THEN LET chunk_index == (line_number * b.bytes_per_line) \div CHUNK_SIZE
             chunk_offset == (line_number * b.bytes_per_line) % CHUNK_SIZE
             loaded == IF chunk_index \in DOMAIN b.loaded_chunks THEN b
                       ELSE load_chunk(b, chunk_index)
         IN  IF chunk_index \notin DOMAIN loaded.loaded_chunks
             THEN Outcome(loaded, <<>>, "KeyError")
             ELSE LET chunk_data == loaded.loaded_chunks[chunk_index]
                      start == chunk_offset
                      end == Min(start + b.bytes_per_line, chunk_data.length)
                  IN  Outcome(loaded,
                              IF end <= start THEN <<>>
                              ELSE FileSlice(b.file_map, chunk_data.start + start,
                                             chunk_data.start + end),
                              "none")
    ELSE LET start == line_number * b.bytes_per_line
             end == Min(start + b.bytes_per_line, Len(b.data))
         IN  Outcome(b, Slice(b.data, start, end), "none")

\* get_line's resident branch (lines 68-70) on a buffer whose data is the
\* whole of file f
get_line_resident(f, bytes_per_line, line_number) ==
    LET start == line_number * bytes_per_line
        end == Min(start + bytes_per_line, f.size)
    IN  IF end <= start THEN <<>> ELSE FileSlice(f, start, end)

\* Buffer.set_bytes_per_line
set_bytes_per_line(b, width) ==
    LET hex_width == width - 10
        max_bytes == (hex_width - 2) \div 3
    IN  [b EXCEPT !.bytes_per_line = Max(8, (max_bytes \div 8) * 8)]

\* Buffer.load_file on a file above the large-file threshold, classified
\* binary: _load_large_file maps it and loads chunk 0
load_large_file(b, f) ==
    load_chunk([b EXCEPT !.filename = "f", !.modified = FALSE, !.cursor_pos = 0,
                         !.undo_stack = <<>>, !.redo_stack = <<>>,
                         !.file_size = f.size, !.is_large_file = TRUE,
                         !.file_map = [open |-> TRUE, size |-> f.size, seed |-> f.seed]],
               0)

----------------------------------------------------------------------------
(* SearchEngine *)

SearchResult(position, length, match) ==
    [position |-> position, length |-> length, match |-> match]

NoResult == [position |-> -1, length |-> 0, match |-> <<>>]

IsSpace(c) == c \in {9, 10, 11, 12, 13, 32}
IsHexDigit(c) == (48 <= c /\ c <= 57) \/ (65 <= c /\ c <= 70) \/ (97 <= c /\ c <= 102)
HexDigitValue(c) == IF c <= 57 THEN c - 48 ELSE IF c <= 70 THEN c - 55 ELSE c - 87

\* ''.join(s.split())
RECURSIVE StripSpace(_)
StripSpace(s) ==
    IF s = <<>> THEN <<>>
    ELSE IF IsSpace(Head(s)) THEN StripSpace(Tail(s))
    ELSE <<Head(s)>> \o StripSpace(Tail(s))

RECURSIVE HexPairs(_)
HexPairs(s) ==
    IF s = <<>> THEN <<>>
    ELSE <<16 * HexDigitValue(s[1]) + HexDigitValue(s[2])>> \o HexPairs(Tail(Tail(s)))

\* bytes.fromhex(''.join(s.split())): ok is FALSE where it raises ValueError
FromHex(s) ==
    LET clean == StripSpace(s)
    IN  IF Len(clean) % 2 = 0 /\ \A i \in 1..Len(clean) : IsHexDigit(clean[i])
        THEN [ok |-> TRUE, bytes |-> HexPairs(clean)]
        ELSE [ok |-> FALSE, bytes |-> <<>>]

\* hay.find(sub, start) of bytes, bytearray and str: -1 when there is none
Find(hay, sub, start) ==
    LET from == IF start < 0 THEN Max(start + Len(hay), 0) ELSE start
        hits == {p \in from..(Len(hay) - Len(sub)) :
                    SubSeq(hay, p + 1, p + Len(sub)) = sub}
    IN  IF from > Len(hay) \/ hits = {} THEN -1
        ELSE CHOOSE p \in hits : \A q \in hits : p <= q

\* chr(b) if 32 <= b <= 126 else '.'
AsciiChar(b) == IF 32 <= b /\ b <= 126 THEN b ELSE 46
AsciiStr(data) == [i \in 1..Len(data) |-> AsciiChar(data[i])]

\* str.lower() on the code points of the model (ASCII letters)
LowerChar(c) == IF 65 <= c /\ c <= 90 THEN c + 32 ELSE c
Lower(s) == [i \in 1..Len(s) |-> LowerChar(s[i])]

\* SearchEngine.find_hex
find_hex(b, pattern, start_pos) ==
    LET h == FromHex(pattern)
        pos == Find(b.data, h.bytes, start_pos)
    IN  IF h.ok /\ pos >= 0 THEN SearchResult(pos, Len(h.bytes), h.bytes)
        ELSE NoResult

\* SearchEngine.find_text
find_text(b, text, case_sensitive, start_pos) ==
    LET ascii_str == AsciiStr(b.data)
        pos == IF case_sensitive THEN Find(ascii_str, text, start_pos)
               ELSE Find(Lower(ascii_str), Lower(text), start_pos)
    IN  IF pos >= 0
        THEN SearchResult(pos, Len(text), Slice(b.data, pos, pos + Len(text)))
        ELSE NoResult

(* re: the patterns of the model are sequences of items, an item an atom   *)
(* with at most one of the quantifiers * + ?, an atom a literal character, *)
(* '.', '^', '$', an escaped punctuation character or \d. Alternation,     *)
(* groups, sets, counted and lazy repetition are not among them: RegexParse *)
(* answers them as it answers a pattern re.compile rejects.                *)

IsAlnum(c) == (48 <= c /\ c <= 57) \/ (65 <= c /\ c <= 90) \/ (97 <= c /\ c <= 122)
IsQuant(c) == c \in {42, 43, 63}
QuantOf(c) == IF c = 42 THEN "star" ELSE IF c = 43 THEN "plus" ELSE "opt"

RegexAtom(kind, ch, quant) == [kind |-> kind, ch |-> ch, quant |-> quant]

\* the atom at the head of p and the number of characters it takes; kind
\* "error" where re.compile raises
RegexHead(p) ==
    LET c == p[1]
    IN  IF c = 92
        THEN IF Len(p) = 1 THEN [kind |-> "error", ch |-> c, n |-> 1]
             ELSE IF p[2] = 100 THEN [kind |-> "digit", ch |-> 0, n |-> 2]
             ELSE IF IsAlnum(p[2]) THEN [kind |-> "error", ch |-> p[2], n |-> 2]
             ELSE [kind |-> "lit", ch |-> p[2], n |-> 2]
        ELSE IF c = 46 THEN [kind |-> "any", ch |-> 0, n |-> 1]
        ELSE IF c = 94 THEN [kind |-> "bol", ch |-> 0, n |-> 1]
        ELSE IF c = 36 THEN [kind |-> "eol", ch |-> 0, n |-> 1]
        ELSE IF IsQuant(c) \/ c \in {40, 41, 91, 124}
        THEN [kind |-> "error", ch |-> c, n |-> 1]
        ELSE [kind |-> "lit", ch |-> c, n |-> 1]

\* re.compile(p): the items of p; ok is FALSE where it raises re.error
RECURSIVE RegexParse(_)
RegexParse(p) ==
    IF p = <<>> THEN [ok |-> TRUE, atoms |-> <<>>]
    ELSE LET h == RegexHead(p)
             after == SubSeq(p, h.n + 1, Len(p))
             quantified == after # <<>> /\ IsQuant(after[1])
             rest == IF quantified THEN Tail(after) ELSE after
             tail == RegexParse(rest)
         IN  IF h.kind = "error" THEN [ok |-> FALSE, atoms |-> <<>>]
             ELSE IF quantified /\ rest # <<>> /\ IsQuant(rest[1])
             THEN [ok |-> FALSE, atoms |-> <<>>]
             ELSE IF ~tail.ok THEN tail
             ELSE [ok |-> TRUE,
                   atoms |-> <<RegexAtom(h.kind, h.ch,
                                         IF quantified THEN QuantOf(after[1])
                                         ELSE "one")>> \o tail.atoms]

\* whether atom a matches the character c; ignore_case is re.IGNORECASE
AtomMatches(a, c, ignore_case) ==
    CASE a.kind = "any" -> TRUE
      [] a.kind = "digit" -> 48 <= c /\ c <= 57
      [] a.kind = "lit" -> IF ignore_case THEN LowerChar(a.ch) = LowerChar(c)
                           ELSE a.ch = c
      [] OTHER -> FALSE

\* how many characters of str from offset i on atom a matches in a row
RECURSIVE AtomRun(_, _, _, _)
AtomRun(a, str, i, ignore_case) ==
    IF i < Len(str) /\ AtomMatches(a, str[i + 1], ignore_case)
    THEN 1 + AtomRun(a, str, i + 1, ignore_case)
    ELSE 0

\* the numbers of characters atom a may take when it matches run characters
\* in a row
RunLengths(a, run) ==
    (IF a.quant \in {"one", "plus"} THEN 1 ELSE 0)
        .. (IF a.quant \in {"one", "opt"} THEN Min(1, run) ELSE run)

RECURSIVE MatchEnd(_, _, _, _)

\* the end of the match that takes the most characters among ks for the
\* first atom, -1 when ks is empty
GreedyEnd(rest, str, i, ignore_case, ks) ==
    IF ks = {} THEN -1
    ELSE MatchEnd(rest, str, i + (CHOOSE k \in ks : \A j \in ks : j <= k),
                  ignore_case)

\* the end of the match of atoms that starts at offset i (greedy, with
\* backtracking), -1 when there is none
MatchEnd(atoms, str, i, ignore_case) ==
    IF atoms = <<>> THEN i
    ELSE IF Head(atoms).kind = "bol"
    THEN IF i = 0 THEN MatchEnd(Tail(atoms), str, i, ignore_case) ELSE -1
    ELSE IF Head(atoms).kind = "eol"
    THEN IF i = Len(str) THEN MatchEnd(Tail(atoms), str, i, ignore_case) ELSE -1
    ELSE GreedyEnd(Tail(atoms), str, i, ignore_case,
                   {k \in RunLengths(Head(atoms),
                                     AtomRun(Head(atoms), str, i, ignore_case)) :
                        MatchEnd(Tail(atoms), str, i + k, ignore_case) # -1})

\* the match that starts at the smallest of starts, as its start and end;
\* start -1 when starts is empty
LeftmostMatch(atoms, str, starts, ignore_case) ==
    IF starts = {} THEN [start |-> -1, end |-> -1]
    ELSE [start |-> MinOf(starts),
          end |-> MatchEnd(atoms, str, MinOf(starts), ignore_case)]

\* regex.search(str, pos): the leftmost match at or after pos
RegexSearch(atoms, str, pos, ignore_case) ==
    LeftmostMatch(atoms, str,
                  {st \in Max(0, Min(pos, Len(str)))..Len(str) :
                        MatchEnd(atoms, str, st, ignore_case) # -1},
                  ignore_case)

\* the result find_regex builds from a match
MatchResult(b, match) ==
    IF match.start >= 0
    THEN SearchResult(match.start, match.end - match.start,
                      Slice(b.data, match.start, match.end))
    ELSE NoResult

\* find_regex searching with the items read before the error instead of
\* catching it
find_regex_uncaught(b, pattern, case_sensitive, start_pos) ==
    MatchResult(b, RegexSearch(RegexParse(pattern).atoms, AsciiStr(b.data),
                               start_pos, ~case_sensitive))

\* SearchEngine.find_regex
find_regex(b, pattern, case_sensitive, start_pos) ==
    IF RegexParse(pattern).ok
    THEN MatchResult(b, RegexSearch(RegexParse(pattern).atoms, AsciiStr(b.data),
                                    start_pos, ~case_sensitive))
    ELSE NoResult

\* the regex find_wildcard builds from its pattern
RECURSIVE WildcardRegex(_)
WildcardRegex(pattern) ==
    IF pattern = <<>> THEN <<>>
    ELSE LET c == Head(pattern)
         IN  (IF c = 42 THEN <<46, 42>>
              ELSE IF c = 63 THEN <<46>>
              ELSE IF c \in {46, 43, 40, 41, 91, 93, 123, 125, 94, 36, 124}
              THEN <<92, c>>
              ELSE <<c>>) \o WildcardRegex(Tail(pattern))

\* SearchEngine.find_wildcard
find_wildcard(b, pattern, start_pos) ==
    IF pattern = <<>> THEN NoResult
    ELSE find_regex(b, WildcardRegex(pattern), TRUE, start_pos)

\* SearchEngine.find_next; start_pos -1000 stands for None (the cursor)
NoStart == -1000
find_next(b, pattern, search_type, case_sensitive, start_pos) ==
    LET start == IF start_pos = NoStart THEN b.cursor_pos ELSE start_pos
    IN  IF pattern = <<>> THEN NoResult
        ELSE IF search_type = "hex" THEN find_hex(b, pattern, start)
        ELSE IF search_type = "regex" THEN find_regex(b, pattern, case_sensitive, start)
        ELSE IF search_type = "wildcard" THEN find_wildcard(b, pattern, start)
        ELSE find_text(b, pattern, case_sensitive, start)

Found(result) == result.position >= 0

\* SearchEngine.replace_next; the result of find_next is computed once
replace_next(b, pattern, replacement, search_type, case_sensitive) ==
    LET h == FromHex(replacement)
        replacement_bytes == IF search_type = "hex" THEN h.bytes
                             ELSE Utf8Encode(replacement)
        Replace(result) ==
            IF ~Found(result) THEN Outcome(b, "False", "none")
            ELSE IF search_type = "hex" /\ ~h.ok THEN Outcome(b, "False", "none")
            ELSE Outcome([b EXCEPT !.data = SliceAssign(@, result.position,
                                              result.position + result.length,
                                              replacement_bytes),
                                   !.undo_stack = DequeAppend(@,
                                              UndoAction(result.position,
                                                  Slice(b.data, result.position,
                                                        result.position + result.length),
                                                  replacement_bytes, "replace"))],
                         "True", "none")
    IN  CHOOSE out \in { Replace(result) :
                            result \in {find_next(b, pattern, search_type,
                                                  case_sensitive, NoStart)} } : TRUE

\* the loop of find_all from search position pos on
RECURSIVE FindAllFrom(_, _, _, _, _)
FindAllFrom(b, pattern, search_type, case_sensitive, pos) ==
    LET result ==
            IF search_type = "hex" THEN find_hex(b, pattern, pos)
            ELSE IF search_type = "regex" THEN find_regex(b, pattern, case_sensitive, pos)
            ELSE IF search_type = "wildcard" THEN find_wildcard(b, pattern, pos)
            ELSE find_text(b, pattern, case_sensitive, pos)
    IN  IF ~Found(result) THEN <<>>
        ELSE IF result.position + 1 >= Len(b.data) THEN <<result>>
        ELSE <<result>> \o FindAllFrom(b, pattern, search_type, case_sensitive,
                                       result.position + 1)

\* find_all handing its results back last match first
find_all_reversed(b, pattern, search_type, case_sensitive) ==
    IF pattern = <<>> THEN <<>>
    ELSE Reverse(FindAllFrom(b, pattern, search_type, case_sensitive, 0))

\* SearchEngine.find_all
find_all(b, pattern, search_type, case_sensitive) ==
    IF pattern = <<>> THEN <<>>
    ELSE FindAllFrom(b, pattern, search_type, case_sensitive, 0)

----------------------------------------------------------------------------
(* InputHandler: the handlers that move the cursor or delete bytes of a   *)
(* binary buffer (is_code_file false)                                     *)

\* window_manager.height: the smallest terminal WindowManager accepts
Height == 10

\* InputHandler._move_left
move_left(b) == IF b.cursor_pos > 0 THEN [b EXCEPT !.cursor_pos = @ - 1] ELSE b

\* InputHandler._move_right
move_right(b) ==
    IF b.cursor_pos < get_size(b) - 1 THEN [b EXCEPT !.cursor_pos = @ + 1] ELSE b

\* InputHandler._move_up
move_up(b) ==
    IF b.cursor_pos >= b.bytes_per_line
    THEN [b EXCEPT !.cursor_pos = @ - b.bytes_per_line] ELSE b

\* InputHandler._move_down
move_down(b) ==
    IF b.cursor_pos + b.bytes_per_line < get_size(b)
    THEN [b EXCEPT !.cursor_pos = @ + b.bytes_per_line] ELSE b

\* InputHandler._move_line_start
move_line_start(b) ==
    [b EXCEPT !.cursor_pos = (@ \div b.bytes_per_line) * b.bytes_per_line]

\* InputHandler._move_line_end
move_line_end(b) ==
    LET line_start == (b.cursor_pos \div b.bytes_per_line) * b.bytes_per_line
        line_end == Min(line_start + b.bytes_per_line - 1, get_size(b) - 1)
    IN  [b EXCEPT !.cursor_pos = line_end]

\* InputHandler._page_up
page_up(b) ==
    LET page_size == (Height - 3) * b.bytes_per_line
    IN  [b EXCEPT !.cursor_pos = Max(0, @ - page_size)]

\* InputHandler._page_down
page_down(b) ==
    LET page_size == (Height - 3) * b.bytes_per_line
    IN  [b EXCEPT !.cursor_pos = Min(get_size(b) - 1, @ + page_size)]

\* InputHandler._delete_char
delete_char(b) == delete_byte(b, b.cursor_pos).b

\* InputHandler._backspace
backspace(b) ==
    IF b.cursor_pos > 0
    THEN delete_byte([b EXCEPT !.cursor_pos = @ - 1], b.cursor_pos - 1).b
    ELSE b

\* for i in range(line_end - 1, line_start - 1, -1): buf.delete_byte(i)
RECURSIVE DeleteDown(_, _, _)
DeleteDown(b, i, line_start) ==
    IF i < line_start THEN b ELSE DeleteDown(delete_byte(b, i).b, i - 1, line_start)

\* InputHandler._cut_line
cut_line(b) ==
    LET line_start == (b.cursor_pos \div b.bytes_per_line) * b.bytes_per_line
        line_end == Min(line_start + b.bytes_per_line, get_size(b))
    IN  DeleteDown(b, line_end - 1, line_start)

----------------------------------------------------------------------------
(* InputHandler: search, replace and the dispatch of a key, on a resident  *)
(* binary buffer. A handler's outcome is the handler and the buffer after. *)

Handled(h, b) == [ih |-> h, b |-> b]

\* InputHandler._start_search
start_search(h) == [h EXCEPT !.search_mode = TRUE, !.search_query = <<>>]

\* _execute_search once find_all has returned results
Searched(h, b, results) ==
    IF results = <<>>
    THEN Handled([h EXCEPT !.search_results = results,
                           !.current_result_index = -1,
                           !.search_mode = FALSE], b)
    ELSE Handled([h EXCEPT !.search_results = results,
                           !.current_result_index = 0,
                           !.search_mode = FALSE],
                 [b EXCEPT !.cursor_pos = results[1].position])

\* InputHandler._execute_search
execute_search(h, b) ==
    IF h.search_query = <<>> THEN Handled([h EXCEPT !.search_mode = FALSE], b)
    ELSE Searched([h EXCEPT !.last_search = <<h.search_query, h.search_type,
                                              h.case_sensitive>>],
                  b, find_all(b, h.search_query, h.search_type, h.case_sensitive))

\* InputHandler._find_next
handler_find_next(h, b) ==
    IF h.search_results = <<>> THEN Handled(start_search(h), b)
    ELSE LET index == IF h.current_result_index < Len(h.search_results) - 1
                      THEN h.current_result_index + 1 ELSE 0
         IN  Handled([h EXCEPT !.current_result_index = index],
                     [b EXCEPT !.cursor_pos = h.search_results[index + 1].position])

\* InputHandler._cycle_search_type
cycle_search_type(h, b) ==
    IF b.is_code_file
    THEN [h EXCEPT !.search_type = CASE @ = "text" -> "regex"
                                     [] @ = "regex" -> "wildcard"
                                     [] OTHER -> "text"]
    ELSE [h EXCEPT !.search_type = CASE @ = "text" -> "hex"
                                     [] @ = "hex" -> "regex"
                                     [] @ = "regex" -> "wildcard"
                                     [] OTHER -> "text"]

\* InputHandler._start_replace
start_replace(h) ==
    IF h.search_results = <<>> THEN start_search(h)
    ELSE [h EXCEPT !.replace_mode = TRUE, !.replace_query = <<>>]

\* replacement_bytes taking what bytes.fromhex rejects for the empty bytes
ReplacementBytes_lenient(h) ==
    IF h.search_type = "hex" THEN [ok |-> TRUE, bytes |-> FromHex(h.replace_query).bytes]
    ELSE [ok |-> TRUE, bytes |-> Utf8Encode(h.replace_query)]

\* replacement_bytes of the replace handlers: ok is FALSE where
\* bytes.fromhex raises ValueError
ReplacementBytes(h) ==
    IF h.search_type = "hex" THEN FromHex(h.replace_query)
    ELSE [ok |-> TRUE, bytes |-> Utf8Encode(h.replace_query)]

\* InputHandler._prepare_replace_action, where it returns an action
prepare_replace_action(h, b, result) ==
    UndoAction(result.position,
               Slice(b.data, result.position, result.position + result.length),
               ReplacementBytes(h).bytes, "replace_range")

\* InputHandler._perform_replacement
perform_replacement(h, b, result) ==
    IF ~ReplacementBytes(h).ok THEN b
    ELSE [b EXCEPT !.data = SliceAssign(@, result.position,
                                        result.position + result.length,
                                        ReplacementBytes(h).bytes),
                   !.cursor_pos = result.position + Len(ReplacementBytes(h).bytes),
                   !.modified = TRUE]

\* InputHandler._replace_match
replace_match(h, b, result) ==
    IF ~ReplacementBytes(h).ok THEN b
    ELSE [perform_replacement(h, b, result) EXCEPT
                !.undo_stack = DequeAppend(@, prepare_replace_action(h, b, result)),
                !.redo_stack = <<>>]

\* results.sort(key=lambda r: r.position, reverse=True): result r put into the
\* sorted list, behind the results of its position
RECURSIVE SortedInsert(_, _)
SortedInsert(sorted, r) ==
    IF sorted = <<>> THEN <<r>>
    ELSE IF Head(sorted).position >= r.position
    THEN <<Head(sorted)>> \o SortedInsert(Tail(sorted), r)
    ELSE <<r>> \o sorted

RECURSIVE SortDescending(_)
SortDescending(results) ==
    IF results = <<>> THEN <<>>
    ELSE SortedInsert(SortDescending(Front(results)), Last(results))

\* the loop of _replace_all over results_copy: the buffer and the sub-actions
\* of the batch after it
RECURSIVE ReplaceEach(_, _, _, _)
ReplaceEach(h, b, results, batch_actions) ==
    IF results = <<>> THEN [b |-> b, batch_actions |-> batch_actions]
    ELSE IF ~ReplacementBytes(h).ok
    THEN ReplaceEach(h, b, Tail(results), batch_actions)
    ELSE ReplaceEach(h, perform_replacement(h, b, Head(results)), Tail(results),
                     Append(batch_actions,
                            prepare_replace_action(h, b, Head(results))))

\* the end of _replace_all's loop: the batch action is pushed when count > 0
PushBatch(done) ==
    IF done.batch_actions = <<>> THEN done.b
    ELSE [done.b EXCEPT
             !.undo_stack =
                 DequeAppend(@, [UndoAction(0, <<>>, <<>>, "batch_replace")
                                   EXCEPT !.batch_actions = done.batch_actions]),
             !.redo_stack = <<>>]

\* the end of _replace_all and of _execute_replace, after their search
ReplaceDone(after) == Handled([after.ih EXCEPT !.replace_mode = FALSE], after.b)

\* InputHandler._replace_all
handler_replace_all(h, b) ==
    IF h.replace_query = <<>> \/ h.search_results = <<>>
    THEN Handled([h EXCEPT !.replace_mode = FALSE], b)
    ELSE ReplaceDone(execute_search(h,
             PushBatch(ReplaceEach(h, b, SortDescending(h.search_results), <<>>))))

\* InputHandler._execute_replace
execute_replace(h, b) ==
    IF h.replace_query = <<>> \/ h.search_results = <<>> \/ h.current_result_index < 0
    THEN Handled([h EXCEPT !.replace_mode = FALSE], b)
    ELSE ReplaceDone(execute_search(h,
             replace_match(h, b, h.search_results[h.current_result_index + 1])))

\* InputHandler.handle_input while search_mode or replace_mode is on: Enter,
\* Escape (no key follows it), Tab, Ctrl+A, Backspace, a printable character
mode_input(h, b, ch) ==
    IF ch = 10
    THEN IF h.search_mode THEN execute_search(h, b) ELSE execute_replace(h, b)
    ELSE IF ch = 27
    THEN IF h.search_mode
         THEN Handled([h EXCEPT !.search_mode = FALSE, !.search_query = <<>>], b)
         ELSE Handled([h EXCEPT !.replace_mode = FALSE, !.replace_query = <<>>], b)
    ELSE IF ch = 9 /\ h.search_mode THEN Handled(cycle_search_type(h, b), b)
    ELSE IF ch = 1 /\ h.replace_mode THEN handler_replace_all(h, b)
    ELSE IF ch \in {263, 127}
    THEN IF h.search_mode /\ h.search_query # <<>>
         THEN Handled([h EXCEPT !.search_query = Front(@)], b)
         ELSE IF h.replace_mode /\ h.replace_query # <<>>
         THEN Handled([h EXCEPT !.replace_query = Front(@)], b)
         ELSE Handled(h, b)
    ELSE IF 32 <= ch /\ ch <= 126
    THEN IF h.search_mode
         THEN Handled([h EXCEPT !.search_query = Append(@, ch)], b)
         ELSE Handled([h EXCEPT !.replace_query = Append(@, ch)], b)
    ELSE Handled(h, b)

\* command_handlers[ch](): Right 261, Enter, Ctrl+F 6, Ctrl+R 18, Ctrl+B 2,
\* Ctrl+Y 25, Ctrl+K 11, Ctrl+N 14
command_input(h, b, ch) ==
    CASE ch = 261 -> Handled(h, move_right(b))
      [] ch = 10 -> Handled(h, move_line_start(move_down(b)))
      [] ch = 6 -> Handled(start_search(h), b)
      [] ch = 18 -> Handled(start_replace(h), b)
      [] ch = 2 -> Handled(h, undo(b).b)
      [] ch = 25 -> Handled(h, redo(b).b)
      [] ch = 11 -> Handled(h, cut_line(b))
      [] ch = 14 -> handler_find_next(h, b)
      [] OTHER -> Handled(h, b)

\* InputHandler.handle_input, insert mode off
handle_input(h, b, ch) ==
    IF h.search_mode \/ h.replace_mode THEN mode_input(h, b, ch)
    ELSE IF ch = 27 THEN Handled(h, b)
    ELSE command_input(h, b, ch)

----------------------------------------------------------------------------
(* The inputs of the runs *)

\* byte values written: 'A' and 'B'; 256 is the value out of range
ByteVals == {65, 66}
ByteArgs == ByteVals \cup {256}

\* the content a buffer is constructed with
InitContents == {<<>>, <<65>>, <<65, 66>>, <<65, 65, 65>>}

\* replace_next's arguments (search type, pattern, replacement, case_sensitive):
\* "A" by "B"; "AB" by ""; "a" by "AA", matching 'A' when case is ignored;
\* "a" by "B", case kept; hex "41" by hex "42 42"; hex "41" by "4", no hex string
ReplaceArgs ==
    { <<"text", <<65>>, <<66>>, FALSE>>,
      <<"text", <<65, 66>>, <<>>, FALSE>>,
      <<"text", <<97>>, <<65, 65>>, FALSE>>,
      <<"text", <<97>>, <<66>>, TRUE>>,
      <<"hex", <<52, 49>>, <<52, 50, 32, 52, 50>>, FALSE>>,
      <<"hex", <<52, 49>>, <<52>>, FALSE>> }

FileNames == {"", "f"}

----------------------------------------------------------------------------
(* Spec: a client calling the methods of Buffer and the cursor handlers of *)
(* InputHandler on a resident binary buffer                                *)

NoReplaceAll == [pattern |-> <<>>, replacement |-> <<>>, search_type |-> "text",
                 case_sensitive |-> FALSE, count |-> 0]
\* no SearchEngine call made yet
NoCall == [method |-> "none", pattern |-> <<>>, search_type |-> "text",
           case_sensitive |-> FALSE, start_pos |-> 0]
\* InputHandler.__init__, with the SearchEngine it owns: the engine's
\* last_search, and the last call a client made on it with what it returned
\* (a sequence of results); opened_by and last_key are history: the key that
\* set open_mode ("open" or "save") and the last key handled
NoHandler == [search_mode |-> FALSE, replace_mode |-> FALSE,
              open_mode |-> FALSE, open_query |-> <<>>,
              search_query |-> <<>>, replace_query |-> <<>>,
              search_type |-> "text", case_sensitive |-> FALSE,
              search_results |-> <<>>, current_result_index |-> -1,
              quit_warning_shown |-> FALSE,
              last_search |-> <<>>, called |-> NoCall, returned |-> <<>>,
              opened_by |-> "none", last_key |-> 0]
\* WindowManager.__init__
NoWindows == [buffers |-> <<>>, active_buffer_index |-> 0]
NoDisk == [written |-> FALSE, whole_map |-> FALSE, bytes |-> <<>>]

Init ==
    /\ cfg \in InitContents
    /\ buf = BufferInit(cfg)
    /\ ih = NoHandler
    /\ disk = NoDisk
    /\ pc = "idle" /\ ra = NoReplaceAll /\ wm = NoWindows
    /\ nops = 0

\* a call with outcome `out`: the buffer after it (an exception leaves the
\* buffer as the method left it when it raised)
Call(out) ==
    /\ pc = "idle"
    /\ Len(out.b.data) <= MaxLen
    /\ buf' = out.b
    /\ UNCHANGED <<ih, cfg, wm, pc, ra>>

\* a call that may push on undo_stack: counted
Mutate(out) ==
    /\ nops < MaxOps
    /\ Call(out)
    /\ nops' = nops + 1

\* a handler of InputHandler that only moves the cursor
Move(b) ==
    /\ Call(Outcome(b, "None", "none"))
    /\ UNCHANGED nops

InsertByte ==
    \E position \in -1..(Len(buf.data) + 1), value \in ByteArgs :
        Mutate(insert_byte(buf, position, value)) /\ UNCHANGED disk

DeleteByte ==
    \E position \in -1..Len(buf.data) :
        Mutate(delete_byte(buf, position)) /\ UNCHANGED disk

ReplaceByte ==
    \E position \in -1..Len(buf.data), value \in ByteArgs :
        Mutate(replace_byte(buf, position, value)) /\ UNCHANGED disk

Undo ==
    /\ Call(undo(buf))
    /\ UNCHANGED <<disk, nops>>

Redo ==
    /\ Call(redo(buf))
    /\ UNCHANGED <<disk, nops>>

\* save_file: a failing write is the open() that raises, the file untouched
SaveFile ==
    \E filename \in FileNames, io_ok \in BOOLEAN :
        LET out == save_file(buf, filename, io_ok)
        IN  /\ Call(out)
            /\ disk' = IF out.ret = "True"
                       THEN [written |-> TRUE, whole_map |-> SavedBytes(buf).whole_map,
                             bytes |-> SavedBytes(buf).bytes]
                       ELSE disk
            /\ UNCHANGED nops

MoveLeft == Move(move_left(buf)) /\ UNCHANGED disk
MoveRight == Move(move_right(buf)) /\ UNCHANGED disk
MoveUp == Move(move_up(buf)) /\ UNCHANGED disk
MoveDown == Move(move_down(buf)) /\ UNCHANGED disk
MoveLineStart == Move(move_line_start(buf)) /\ UNCHANGED disk
MoveLineEnd == Move(move_line_end(buf)) /\ UNCHANGED disk
PageUp == Move(page_up(buf)) /\ UNCHANGED disk
PageDown == Move(page_down(buf)) /\ UNCHANGED disk

\* the handlers that delete: Delete, Backspace and cut-line
DeleteChar == Mutate(Outcome(delete_char(buf), "None", "none")) /\ UNCHANGED disk
Backspace == Mutate(Outcome(backspace(buf), "None", "none")) /\ UNCHANGED disk
CutLine == Mutate(Outcome(cut_line(buf), "None", "none")) /\ UNCHANGED disk

Next ==
    \/ InsertByte \/ DeleteByte \/ ReplaceByte
    \/ Undo \/ Redo \/ SaveFile
    \/ MoveLeft \/ MoveRight \/ MoveUp \/ MoveDown
    \/ MoveLineStart \/ MoveLineEnd \/ PageUp \/ PageDown
    \/ DeleteChar \/ Backspace \/ CutLine

Spec == Init /\ [][Next]_vars

----------------------------------------------------------------------------
(* SpecSearch: the same client, calling SearchEngine's replace_next and   *)
(* replace_all as well                                                     *)

ReplaceNext ==
    \E a \in ReplaceArgs :
        Mutate(replace_next(buf, a[2], a[3], a[1], a[4])) /\ UNCHANGED disk

\* SearchEngine.replace_all: count = 0, then the loop
StartReplaceAll(a) ==
    /\ pc = "idle" /\ nops < MaxOps
    /\ pc' = "replace_all"
    /\ ra' = [pattern |-> a[2], replacement |-> a[3], search_type |-> a[1],
              case_sensitive |-> a[4], count |-> 0]
    /\ nops' = nops + 1
    /\ UNCHANGED <<buf, ih, cfg, wm>>

ReplaceAllCall ==
    \E a \in ReplaceArgs : StartReplaceAll(a) /\ UNCHANGED disk

\* one turn of `while self.replace_next(...): count += 1`; the turn that
\* finds nothing returns count. count is exact up to MaxCount; above it only
\* its parity is kept (MaxCount and MaxCount + 1 in turn)
ReplaceAllLoop ==
    /\ pc = "replace_all"
    /\ \E out \in {replace_next(buf, ra.pattern, ra.replacement, ra.search_type,
                                 ra.case_sensitive)} :
          /\ Len(out.b.data) <= MaxLen
          /\ buf' = out.b
          /\ IF out.ret = "True"
             THEN ra' = [ra EXCEPT !.count = IF @ > MaxCount THEN MaxCount ELSE @ + 1]
                  /\ pc' = pc
             ELSE ra' = ra /\ pc' = "idle"
    /\ UNCHANGED <<ih, cfg, wm, disk, nops>>

NextSearch ==
    \/ Next
    \/ ReplaceNext
    \/ ReplaceAllCall
    \/ ReplaceAllLoop

SpecSearch == Init /\ [][NextSearch]_vars

----------------------------------------------------------------------------
(* SpecReplaceAll: replace_all called with replacements no longer than the *)
(* pattern, at every cursor position; once called, its loop keeps running  *)

\* the content the buffer is constructed with
LoopContents == {<<>>, <<65>>, <<65, 66>>, <<66, 65, 65>>}

\* replace_all's arguments (search type, pattern, replacement,
\* case_sensitive): "A" by "B"; "A" by "A"; "a" by "A", matching 'A' when
\* case is ignored; hex "41" by hex "41"
LoopArgs ==
    { <<"text", <<65>>, <<66>>, FALSE>>,
      <<"text", <<65>>, <<65>>, FALSE>>,
      <<"text", <<97>>, <<65>>, FALSE>>,
      <<"hex", <<52, 49>>, <<52, 49>>, FALSE>> }

InitReplaceAll ==
    /\ cfg \in LoopContents
    /\ buf = BufferInit(cfg)
    /\ ih = NoHandler
    /\ disk = NoDisk
    /\ pc = "idle" /\ ra = NoReplaceAll /\ wm = NoWindows
    /\ nops = 0

ReplaceAllStart ==
    \E a \in LoopArgs : StartReplaceAll(a) /\ UNCHANGED disk

NextReplaceAll == ReplaceAllStart \/ ReplaceAllLoop \/ MoveRight

\* the while loop of replace_all is sequential code: a turn that can be
\* taken is taken
SpecReplaceAll ==
    InitReplaceAll /\ [][NextReplaceAll]_vars /\ WF_vars(ReplaceAllLoop)

----------------------------------------------------------------------------
(* SpecKeys: keys handed one by one to InputHandler.handle_input, on a     *)
(* resident binary buffer: a search, cursor moves, a line cut, undo and     *)
(* redo, and the replacement of one match or of all                         *)

\* keys handed to handle_input in one run
MaxKeys == 8
\* longest query typed
MaxQuery == 2

KeyContents == {<<65>>, <<65, 66>>, <<65, 65, 65>>, <<66, 65, 65, 65>>}

\* 'A' and 'B'
Printable == {65, 66}

InitKeys ==
    /\ cfg \in KeyContents
    /\ buf = BufferInit(cfg)
    /\ ih = NoHandler
    /\ disk = NoDisk
    /\ pc = "idle" /\ ra = NoReplaceAll /\ wm = NoWindows
    /\ nops = 0

\* a key handled, with the handler and the buffer after it
KeyHandled(out) ==
    /\ nops < MaxKeys
    /\ Len(out.ih.search_query) <= MaxQuery
    /\ Len(out.ih.replace_query) <= MaxQuery
    /\ Len(out.b.data) <= MaxLen
    /\ ih' = out.ih
    /\ buf' = out.b
    /\ nops' = nops + 1
    /\ UNCHANGED <<cfg, wm, pc, ra>>

Key(ch) == KeyHandled(handle_input(ih, buf, ch))

\* a printable character or Backspace
TypeKey == \E ch \in Printable \cup {127} : Key(ch) /\ UNCHANGED disk

\* Enter, Escape, Ctrl+A
ModeKey == \E ch \in {10, 27, 1} : Key(ch) /\ UNCHANGED disk

\* Right, Ctrl+F, Ctrl+R, Ctrl+B, Ctrl+Y, Ctrl+K, Ctrl+N
CommandKey == \E ch \in {261, 6, 18, 2, 25, 11, 14} : Key(ch) /\ UNCHANGED disk

NextKeys == TypeKey \/ ModeKey \/ CommandKey

SpecKeys == InitKeys /\ [][NextKeys]_vars

----------------------------------------------------------------------------
(* SpecFind: a client that searches a resident binary buffer with          *)
(* find_next and find_all, between cursor movements, line cuts and undos   *)

\* the content the searched buffers are constructed with: 'A', 'B', 'a',
\* '.' and the unprintable byte 1
FindContents ==
    { <<>>, <<65, 65, 65>>, <<65, 66, 65, 66>>, <<97, 65, 1>>, <<46, 66>> }

\* the patterns re.compile raises re.error for (search type, pattern,
\* case_sensitive): regex "*" (nothing to repeat) and "A(" (unterminated
\* group); wildcard "A\", whose backslash find_wildcard hands to re.compile
\* as it is (bad escape at the end of the pattern)
MalformedArgs ==
    { <<"regex", <<42>>, FALSE>>, <<"regex", <<65, 40>>, TRUE>>,
      <<"wildcard", <<65, 92>>, FALSE>> }

\* the searches (search type, pattern, case_sensitive): text "A", "AA" and
\* "a" without case, "."; hex "41", "41 41", " " (no byte at all) and "4"
\* (no hex string); regex "A*"; wildcard "?"; and the patterns re.compile
\* rejects
FindArgs ==
    { <<"text", <<65>>, TRUE>>, <<"text", <<65, 65>>, FALSE>>,
      <<"text", <<97>>, FALSE>>, <<"text", <<46>>, FALSE>>,
      <<"hex", <<52, 49>>, FALSE>>, <<"hex", <<52, 49, 32, 52, 49>>, FALSE>>,
      <<"hex", <<32>>, FALSE>>, <<"hex", <<52>>, FALSE>>,
      <<"regex", <<65, 42>>, TRUE>>, <<"wildcard", <<63>>, FALSE>> }
        \cup MalformedArgs

\* the start positions a caller passes: None (the cursor), and the offsets
\* 0, 1, size and size + 1
StartArgs(b) == {NoStart, 0, 1, Len(b.data), Len(b.data) + 1}

InitFind ==
    /\ cfg \in FindContents
    /\ buf = BufferInit(cfg)
    /\ ih = NoHandler
    /\ disk = NoDisk
    /\ pc = "idle" /\ ra = NoReplaceAll /\ wm = NoWindows
    /\ nops = 0

\* find_next(pattern, search_type, case_sensitive, start_pos)
FindNextCall ==
    \E a \in FindArgs, start_pos \in StartArgs(buf) :
        LET result == find_next(buf, a[2], a[1], a[3], start_pos)
        IN  /\ ih' = [ih EXCEPT !.last_search = <<a[2], a[1], a[3]>>,
                                !.called = [method |-> "find_next", pattern |-> a[2],
                                            search_type |-> a[1],
                                            case_sensitive |-> a[3],
                                            start_pos |-> start_pos],
                                !.returned = IF Found(result) THEN <<result>> ELSE <<>>]
            /\ UNCHANGED <<buf, cfg, wm, disk, pc, ra, nops>>

\* find_all(pattern, search_type, case_sensitive)
FindAllCall ==
    \E a \in FindArgs :
        /\ ih' = [ih EXCEPT !.last_search = <<a[2], a[1], a[3]>>,
                            !.called = [method |-> "find_all", pattern |-> a[2],
                                        search_type |-> a[1], case_sensitive |-> a[3],
                                        start_pos |-> 0],
                            !.returned = find_all(buf, a[2], a[1], a[3])]
        /\ UNCHANGED <<buf, cfg, wm, disk, pc, ra, nops>>

NextFind ==
    \/ FindNextCall \/ FindAllCall
    \/ MoveRight \/ MoveLineEnd \/ CutLine \/ Undo

SpecFind == InitFind /\ [][NextFind]_vars

----------------------------------------------------------------------------
(* Properties *)

\* undo called until it returns False
RECURSIVE UndoAll(_)
UndoAll(b) == IF b.undo_stack = <<>> THEN b ELSE UndoAll(undo(b).b)

\* a step that pushed on undo_stack directly, not by undo/redo replay
PushStep == buf'.undo_stack # buf.undo_stack /\ ~Undo /\ ~Redo

\* a step of one of the single-byte mutations that recorded an action
ByteMutationStep ==
    (InsertByte \/ DeleteByte \/ ReplaceByte) /\ buf'.undo_stack # buf.undo_stack

\* undo once per recorded action gives back the constructed content
UndoAllRestores ==
    nops <= LogCap => UndoAll(buf).data = cfg

\* one undo right after a recorded mutation gives back the content before it
UndoOneRestores ==
    ByteMutationStep =>
        /\ undo(buf').exc = "none"
        /\ undo(buf').b.data = buf.data

\* C1: on a resident binary buffer, after at most LogCap single-byte
\* mutations (with undos and redos among them), one undo per recorded action
\* gives back the content the buffer was constructed with, and one undo right
\* after a mutation gives back the content before that mutation.
C1_UndoRestoresContent ==
    [](UndoAllRestores) /\ [][UndoOneRestores]_vars

\* two mutations were made and both undone
C1_Witness ==
    /\ Len(buf.redo_stack) = 2 /\ buf.undo_stack = <<>>
    /\ buf.redo_stack[1].action_type = "delete"
    /\ buf.redo_stack[2].action_type = "insert"
    /\ buf.data = cfg /\ cfg # <<>>

\* C2: for every action on top of undo_stack, undo immediately followed by
\* redo gives back the content, the modified flag and both logs.
C2_UndoRedoRoundTrip ==
    buf.undo_stack # <<>> =>
        LET u == undo(buf)
            r == redo(u.b)
        IN  /\ u.exc = "none" /\ r.exc = "none"
            /\ r.b.data = buf.data
            /\ r.b.code_lines = buf.code_lines
            /\ r.b.modified = buf.modified
            /\ r.b.undo_stack = buf.undo_stack
            /\ r.b.redo_stack = buf.redo_stack

\* C3: every step that pushes an action on undo_stack directly leaves
\* redo_stack empty.
C3_PushClearsRedo ==
    [][PushStep => buf'.redo_stack = <<>>]_vars

\* C8: after a mutating operation that leaves undo_stack non-empty modified
\* is true, and right after a save_file that returned True it is false.
C8_ModifiedAfterMutation ==
    [][/\ (PushStep /\ buf'.undo_stack # <<>>) => buf'.modified
       /\ \A filename \in FileNames :
            (SaveFile /\ save_file(buf, filename, TRUE).b = buf')
                => ~buf'.modified]_vars

\* an undo that returned True
UndoStep ==
    (Undo /\ undo(buf).ret = "True") => (buf'.modified <=> buf'.undo_stack # <<>>)

\* a redo that returned True
RedoStep ==
    (Redo /\ redo(buf).ret = "True") => buf'.modified

\* an empty buffer after insert_byte(0, 65), delete_byte(0), undo(), undo()
InsertDeleteUndone ==
    /\ cfg = <<>> /\ buf.undo_stack = <<>>
    /\ buf.redo_stack = <<UndoAction(0, <<65>>, <<>>, "delete"),
                          UndoAction(0, <<>>, <<65>>, "insert")>>

\* C9: after an undo that returns True, modified is false exactly when
\* undo_stack is empty; after a redo that returns True, modified is true; and
\* insert at 0 into an empty buffer, delete at 0 and two undos leave size 0
\* and modified false.
C9_ModifiedAfterUndoRedo ==
    /\ [][UndoStep /\ RedoStep]_vars
    /\ [](InsertDeleteUndone => (Len(buf.data) = 0 /\ ~buf.modified))

\* the scenario's end: both actions undone, nothing left to undo
C9_Witness == InsertDeleteUndone /\ ~buf.modified /\ buf.data = <<>>

\* C10: the action replace_next records when it returns True (and each one
\* replace_all's loop records) is undone by one undo: the bytes are those
\* before the replacement.
C10_ReplaceNextUndo ==
    [][((ReplaceNext \/ ReplaceAllLoop) /\ buf'.undo_stack # buf.undo_stack) =>
            /\ undo(buf').exc = "none"
            /\ undo(buf').b.data = buf.data]_vars

\* C11: when replace_all returns, given a replacement it can apply, no
\* occurrence of the pattern is left anywhere in the buffer, wherever the
\* cursor was when it was called.
C11_ReplaceAllEveryOccurrence ==
    [][(pc = "replace_all" /\ pc' = "idle" /\ ReplaceAllLoop
            /\ (ra.search_type = "hex" => FromHex(ra.replacement).ok)) =>
          ~Found(find_next(buf', ra.pattern, ra.search_type,
                           ra.case_sensitive, 0))]_vars

\* C12: replace_all terminates: once called, it returns after finitely many
\* replace_next calls, whatever the content, the pattern and the replacement.
C12_ReplaceAllTerminates == (pc = "replace_all") ~> (pc = "idle")

\* C13: the batch action the dispatcher's replace-all pushes is undone by
\* one undo, which gives back the bytes held before the replace-all, and
\* replayed by one redo after it, which gives the bytes held after it.
C13_BatchUndoRedo ==
    [][(ih.replace_mode /\ buf'.undo_stack # buf.undo_stack
            /\ Last(buf'.undo_stack).action_type = "batch_replace") =>
          /\ undo(buf').b.data = buf.data
          /\ redo(undo(buf').b).b.data = buf'.data]_vars

\* C7: in binary mode the cursor offset lies in 0..size.
C7_CursorInRange ==
    ~buf.is_code_file => (0 <= buf.cursor_pos /\ buf.cursor_pos <= Len(buf.data))

\* the positions outside the content, for an insertion and for a deletion or
\* replacement
OutOfRangeInsert(b) == {-1, Len(b.data) + 1}
OutOfRangeItem(b) == {-1, Len(b.data)}

\* C18: a single-byte mutation at a position outside the valid range changes
\* nothing: content, both logs, modified and cursor are as before.
C18_OutOfRangeIgnored ==
    \A value \in ByteVals :
        /\ \A position \in OutOfRangeInsert(buf) :
                insert_byte(buf, position, value).b = buf
        /\ \A position \in OutOfRangeItem(buf) :
                /\ delete_byte(buf, position).b = buf
                /\ replace_byte(buf, position, value).b = buf

\* byte values outside 0..255
BadByteVals == {-1, 256}

\* C19: insert_byte and replace_byte with a value outside 0..255 raise
\* ValueError and leave the buffer as it was, for every position.
C19_BadValueRejected ==
    \A value \in BadByteVals, position \in -1..(Len(buf.data) + 1) :
        /\ insert_byte(buf, position, value) = Outcome(buf, "None", "ValueError")
        /\ replace_byte(buf, position, value) = Outcome(buf, "None", "ValueError")

\* a modified buffer with content and both logs non-empty, on which the
\* calls with a bad value are rejected
C19_Witness ==
    /\ buf.data # <<>> /\ buf.modified
    /\ buf.undo_stack # <<>> /\ buf.redo_stack # <<>>
    /\ insert_byte(buf, 0, 256).exc = "ValueError"
    /\ replace_byte(buf, 0, -1).exc = "ValueError"

\* C20: undo on an empty undo_stack and redo on an empty redo_stack return
\* False and change nothing; on a non-empty log they return True.
C20_EmptyLogNoChange ==
    /\ buf.undo_stack = <<>> => undo(buf) = Outcome(buf, "False", "none")
    /\ buf.redo_stack = <<>> => redo(buf) = Outcome(buf, "False", "none")
    /\ buf.undo_stack # <<>> => (undo(buf).ret = "True" /\ undo(buf).exc = "none")
    /\ buf.redo_stack # <<>> => (redo(buf).ret = "True" /\ redo(buf).exc = "none")

\* the positions of a list of results
Positions(results) == {results[i].position : i \in 1..Len(results)}

\* C14: the list find_all returns is strictly ascending in position, and
\* every result lies inside the buffer.
C14_FindAllAscendingInBounds ==
    [][(ih'.called.method = "find_all" /\ FindAllCall) =>
        LET results == ih'.returned
        IN  /\ \A i \in 1..(Len(results) - 1) :
                    results[i].position < results[i + 1].position
            /\ \A i \in 1..Len(results) :
                    /\ 0 <= results[i].position
                    /\ results[i].position + results[i].length <= get_size(buf)]_vars

\* find_all returned two matches that overlap
C14_Witness ==
    /\ ih.called.method = "find_all"
    /\ Len(ih.returned) >= 2
    /\ ih.returned[2].position < ih.returned[1].position + ih.returned[1].length
    /\ ih.returned = find_all(buf, ih.called.pattern, ih.called.search_type,
                              ih.called.case_sensitive)

\* whether a literal pattern matches the content at offset p: in text mode
\* character by character against the ASCII projection, case-folded unless
\* case_sensitive; in hex mode byte for byte
MatchesAt(data, p, pattern, search_type, case_sensitive) ==
    IF search_type = "hex"
    THEN LET h == FromHex(pattern)
         IN  /\ h.ok
             /\ p + Len(h.bytes) <= Len(data)
             /\ \A i \in 1..Len(h.bytes) : data[p + i] = h.bytes[i]
    ELSE /\ p + Len(pattern) <= Len(data)
         /\ \A i \in 1..Len(pattern) :
                IF case_sensitive THEN AsciiChar(data[p + i]) = pattern[i]
                ELSE LowerChar(AsciiChar(data[p + i])) = LowerChar(pattern[i])

\* the offsets at which the pattern occurs
Occurrences(data, pattern, search_type, case_sensitive) ==
    {p \in 0..Len(data) : MatchesAt(data, p, pattern, search_type, case_sensitive)}

\* C15: in the literal disciplines find_next returns the match with the
\* smallest position at or after start (the cursor offset when no start is
\* given), or none when there is no such match.
C15_FindNextFirstMatch ==
    [][(ih'.called.method = "find_next" /\ FindNextCall) =>
        LET c == ih'.called
            start == IF c.start_pos = NoStart THEN buf.cursor_pos ELSE c.start_pos
            occ == {p \in Occurrences(buf.data, c.pattern, c.search_type,
                                      c.case_sensitive) : p >= start}
        IN  c.search_type \in {"text", "hex"} =>
                IF occ = {} THEN ih'.returned = <<>>
                ELSE /\ ih'.returned # <<>>
                     /\ ih'.returned[1].position = MinOf(occ)]_vars

\* C16: in the literal disciplines the positions find_all returns are
\* exactly the offsets at which the pattern occurs.
C16_FindAllEveryOccurrence ==
    [][(ih'.called.method = "find_all" /\ FindAllCall) =>
        LET c == ih'.called
        IN  c.search_type \in {"text", "hex"} =>
                Positions(ih'.returned)
                    = Occurrences(buf.data, c.pattern, c.search_type,
                                  c.case_sensitive)]_vars

----------------------------------------------------------------------------
(* SpecCap: one client that mutates a resident buffer more often than the  *)
(* logs are long, then undoes and redoes                                   *)

InitCap ==
    /\ cfg = <<>>
    /\ buf = BufferInit(cfg)
    /\ ih = NoHandler
    /\ disk = NoDisk
    /\ pc = "idle" /\ ra = NoReplaceAll /\ wm = NoWindows
    /\ nops = 0

\* the client's k-th mutation, k = nops: two inserts at the end, a
\* replacement of the first byte by the other value, a deletion of the last
\* byte, and again; each of them is recorded
CapCall(out) ==
    /\ nops < MaxMut
    /\ buf.redo_stack = <<>>
    /\ buf' = out.b
    /\ nops' = nops + 1
    /\ UNCHANGED <<ih, cfg, wm, disk, pc, ra>>

CapInsert ==
    /\ nops % 4 \in {0, 1}
    /\ CapCall(insert_byte(buf, Len(buf.data), 65 + (nops % 2)))

CapReplace ==
    /\ nops % 4 = 2
    /\ buf.data # <<>>
    /\ CapCall(replace_byte(buf, 0, IF buf.data[1] = 65 THEN 66 ELSE 65))

CapDelete ==
    /\ nops % 4 = 3
    /\ CapCall(delete_byte(buf, Len(buf.data) - 1))

CapUndo ==
    /\ buf' = undo(buf).b
    /\ UNCHANGED <<ih, cfg, wm, disk, pc, ra, nops>>

CapRedo ==
    /\ buf' = redo(buf).b
    /\ UNCHANGED <<ih, cfg, wm, disk, pc, ra, nops>>

NextCap == CapInsert \/ CapReplace \/ CapDelete \/ CapUndo \/ CapRedo

SpecCap == InitCap /\ [][NextCap]_vars

\* the content just after the client's first mutation
AfterFirstMutation == insert_byte(BufferInit(<<>>), 0, 65).b.data

\* C4: both logs hold at most LogCap actions; a push on a full undo log
\* drops exactly its oldest action and keeps the others in order; after
\* LogCap + 1 mutations, LogCap undos empty the log and leave the content
\* as it was just after the first mutation.
C4_LogCapacity ==
    /\ [](Len(buf.undo_stack) <= LogCap /\ Len(buf.redo_stack) <= LogCap)
    /\ [][((CapInsert \/ CapReplace \/ CapDelete) /\ Len(buf.undo_stack) = LogCap)
            => /\ Len(buf'.undo_stack) = LogCap
               /\ Front(buf'.undo_stack) = Tail(buf.undo_stack)]_vars
    /\ []((nops = LogCap + 1 /\ buf.undo_stack = <<>>)
            => (Len(buf.redo_stack) = LogCap /\ buf.data = AfterFirstMutation))

C4_Witness ==
    /\ nops = LogCap + 1
    /\ buf.undo_stack = <<>>
    /\ Len(buf.redo_stack) = LogCap
    /\ buf.data = AfterFirstMutation
    /\ buf.data # <<>>


----------------------------------------------------------------------------
(* SpecChunk: a buffer loaded in chunked mode, read line by line under     *)
(* changing window widths                                                  *)

\* the large-file threshold of load_file: 10 * 1024 * 1024
LargeFileThreshold == 10485760
\* chunk indices asked for: 0..MaxChunkArg
MaxChunkArg == 12

\* files above the threshold: of 11 chunks, the last of one byte, and of 12
LargeFiles ==
    { [size |-> LargeFileThreshold + 1, seed |-> 0],
      [size |-> LargeFileThreshold + CHUNK_SIZE + 100, seed |-> 7] }

\* window widths: they give 8, 16 and 24 bytes per line
Widths == {40, 62, 86}

\* the lines asked for: the one holding each chunk's first byte and the one
\* before it
LineArgs(bytes_per_line) ==
    { n \in { (k * CHUNK_SIZE) \div bytes_per_line - d :
                k \in 0..MaxChunkArg, d \in {0, 1} } : n >= 0 }

InitChunk ==
    /\ \E f \in LargeFiles :
          /\ f.size > LargeFileThreshold
          /\ buf = load_large_file(BufferInit(<<>>), f)
    /\ cfg = <<>>
    /\ ih = NoHandler
    /\ disk = NoDisk
    /\ pc = "idle" /\ ra = NoReplaceAll /\ wm = NoWindows
    /\ nops = 0

GetLine ==
    \E line_number \in LineArgs(buf.bytes_per_line) :
        /\ buf' = get_line(buf, line_number).b
        /\ UNCHANGED <<ih, cfg, wm, disk, pc, ra, nops>>

SetBytesPerLine ==
    \E width \in Widths :
        /\ buf' = set_bytes_per_line(buf, width)
        /\ UNCHANGED <<ih, cfg, wm, disk, pc, ra, nops>>

NextChunk == GetLine \/ SetBytesPerLine

SpecChunk == InitChunk /\ [][NextChunk]_vars

\* C5: the chunk cache holds at most CacheCap entries.
C5_CacheBounded == Cardinality(DOMAIN buf.loaded_chunks) <= CacheCap

\* C6: for every line, get_line on the chunked buffer returns the bytes
\* get_line returns on a resident buffer holding the same file.
C6_ChunkedEqualsResident ==
    buf.is_large_file =>
        \A line_number \in LineArgs(buf.bytes_per_line) :
            get_line(buf, line_number).ret
                = get_line_resident(buf.file_map, buf.bytes_per_line, line_number)

\* the chunk index get_line computes for a line (lines 57-58)
ChunkIndexOf(b, line_number) == (line_number * b.bytes_per_line) \div CHUNK_SIZE

\* C17: when get_line loads a chunk that is not cached and the cache then
\* holds more than CacheCap entries, exactly the entry of the smallest index
\* among the other entries is evicted, and the requested chunk is cached when
\* get_line reads it.
C17_EvictsSmallestOther ==
    buf.is_large_file =>
        \A line_number \in LineArgs(buf.bytes_per_line) :
            LET chunk_index == ChunkIndexOf(buf, line_number)
                before == DOMAIN buf.loaded_chunks
                out == get_line(buf, line_number)
            IN  (chunk_index \notin before /\ Cardinality(before) + 1 > CacheCap) =>
                    /\ out.exc = "none"
                    /\ chunk_index \in DOMAIN out.b.loaded_chunks
                    /\ DOMAIN out.b.loaded_chunks
                          = (before \cup {chunk_index}) \ {MinOf(before)}

----------------------------------------------------------------------------
(* Frame conditions of the single-byte mutations *)

\* C27: replace_byte at a valid position with the value the byte already has
\* records no action and leaves content, undo_stack, redo_stack, modified
\* (and every other field) as they were.
C27_EqualReplaceNoOp ==
    \A position \in 0..(Len(buf.data) - 1) :
        replace_byte(buf, position, buf.data[position + 1]) = Outcome(buf, "None", "none")

\* content to replace in, a redo_stack that a recorded action would clear and
\* a modified flag that it would set
C27_Witness ==
    /\ buf.data # <<>> /\ buf.redo_stack # <<>> /\ buf.undo_stack # <<>>
    /\ ~buf.modified
    /\ replace_byte(buf, 0, buf.data[1]).b = buf


\* C24: a single-byte mutation that recorded an action, followed by one undo,
\* leaves cursor_pos at the value it had before the mutation, for every
\* valid position and every cursor offset.
C24_UndoRestoresCursor ==
    [][ByteMutationStep => undo(buf').b.cursor_pos = buf.cursor_pos]_vars


\* C30: undo of a replace_range action leaves the cursor at the start of the
\* range, and redo of it leaves the cursor at the start plus the length of
\* new_data, also for a range that ends at the end of the buffer.
C30_RangeCursor ==
    /\ (buf.undo_stack # <<>> /\ Last(buf.undo_stack).action_type = "replace_range") =>
            undo(buf).b.cursor_pos = Last(buf.undo_stack).position
    /\ (buf.redo_stack # <<>> /\ Last(buf.redo_stack).action_type = "replace_range") =>
            redo(buf).b.cursor_pos =
                Last(buf.redo_stack).position + Len(Last(buf.redo_stack).new_data)


\* what the claim of a read-only call compares: the lines get_line gives, the
\* size, both logs and modified
SameVisible(after, before) ==
    /\ get_size(after) = get_size(before)
    /\ \A line_number \in LineArgs(before.bytes_per_line) :
            get_line(after, line_number).ret = get_line(before, line_number).ret
    /\ after.undo_stack = before.undo_stack
    /\ after.redo_stack = before.redo_stack
    /\ after.modified = before.modified

\* C29: on a buffer loaded in chunked mode insert_byte, delete_byte and
\* replace_byte are read-only: for every position and value they leave the
\* lines get_line gives, get_size, undo_stack, redo_stack and modified as
\* they were.
C29_ChunkedReadOnly ==
    buf.is_large_file =>
        \A position \in {0, 1, CHUNK_SIZE}, value \in ByteVals :
            /\ SameVisible(insert_byte(buf, position, value).b, buf)
            /\ SameVisible(delete_byte(buf, position).b, buf)
            /\ SameVisible(replace_byte(buf, position, value).b, buf)


----------------------------------------------------------------------------
(* SpecHexKeys: the keys of a user who searches and replaces in hex mode,  *)
(* and a client calling SearchEngine.replace_next, on a resident binary    *)
(* buffer                                                                  *)

\* '4' and '1': "41" is the byte 'A', "4" and "1" are no hex strings
HexPrintable == {52, 49}

\* replace_next's arguments with a hex replacement: "41" by "4", "41" by
\* "41 4", "41" by "42"
HexReplaceArgs ==
    { <<"hex", <<52, 49>>, <<52>>, FALSE>>,
      <<"hex", <<52, 49>>, <<52, 49, 32, 52>>, FALSE>>,
      <<"hex", <<52, 49>>, <<52, 50>>, FALSE>> }

HexTypeKey == \E ch \in HexPrintable : Key(ch) /\ UNCHANGED disk

\* Enter, Tab, Ctrl+A
HexModeKey == \E ch \in {10, 9, 1} : Key(ch) /\ UNCHANGED disk

\* Ctrl+F, Ctrl+R, Ctrl+B
HexCommandKey == \E ch \in {6, 18, 2} : Key(ch) /\ UNCHANGED disk

\* a call of search_engine.replace_next between two keys
EngineReplaceNext ==
    \E a \in HexReplaceArgs :
        \E out \in {replace_next(buf, a[2], a[3], a[1], a[4])} :
            /\ ~ih.search_mode /\ ~ih.replace_mode
            /\ KeyHandled(Handled([ih EXCEPT !.called = [NoCall EXCEPT !.method = "replace_next"],
                                             !.returned = <<out.ret>>], out.b))
            /\ UNCHANGED disk

NextHexKeys == HexTypeKey \/ HexModeKey \/ HexCommandKey \/ EngineReplaceNext

SpecHexKeys == InitKeys /\ [][NextHexKeys]_vars

\* Enter or Ctrl+A handled in replace mode with a hex replacement that is
\* no hex string, and matches to replace
BadHexReplaceStep ==
    /\ ih.replace_mode /\ ~ih'.replace_mode
    /\ ih.search_type = "hex" /\ ~FromHex(ih.replace_query).ok
    /\ ih.search_results # <<>> /\ ih.current_result_index >= 0
    /\ HexModeKey

\* C22: when the replacement of a hex-mode replace is no valid hex string, no
\* byte of the buffer is changed and no action is pushed on undo_stack: by
\* SearchEngine.replace_next (which returns False), by the dispatcher's
\* replacement of one match and by its replace-all.
C22_BadHexReplacement ==
    /\ [](\A a \in HexReplaceArgs :
            ~FromHex(a[3]).ok =>
                replace_next(buf, a[2], a[3], a[1], a[4]) = Outcome(buf, "False", "none"))
    /\ [][BadHexReplaceStep =>
            (buf'.data = buf.data /\ buf'.undo_stack = buf.undo_stack
                /\ buf'.redo_stack = buf.redo_stack)]_vars

\* a hex search found 'A' twice and the replacement typed is "4"; the byte
\* 'A' is there for replace_next to find
C22_Witness ==
    /\ ih.replace_mode /\ ih.search_type = "hex"
    /\ ih.replace_query = <<52>> /\ Len(ih.search_results) >= 2
    /\ Found(find_next(buf, <<52, 49>>, "hex", FALSE, NoStart))


----------------------------------------------------------------------------
(* Searches with a pattern that is no regular expression *)

\* a step of find_next or find_all called with one of the malformed patterns
\* (the calls are the only steps that change what the engine recorded)
MalformedCall ==
    /\ ih' # ih
    /\ ih'.called.method \in {"find_next", "find_all"}
    /\ <<ih'.called.search_type, ih'.called.pattern, ih'.called.case_sensitive>>
            \in MalformedArgs

\* C23: for a malformed regex or wildcard pattern find_next returns None and
\* find_all returns the empty list; neither raises, both return, and the
\* buffer is as it was.
C23_MalformedPattern ==
    [][MalformedCall => (ih'.returned = <<>> /\ buf' = buf)]_vars

\* find_all was called with the wildcard pattern "A\" on a buffer that holds
\* an 'A', and returned no result
C23_Witness ==
    /\ ih.called.method = "find_all" /\ ih.called.search_type = "wildcard"
    /\ ih.called.pattern = <<65, 92>>
    /\ ih.returned = <<>>
    /\ \E i \in 1..Len(buf.data) : buf.data[i] = 65


----------------------------------------------------------------------------
(* Saving *)

\* save_file(filename) where the write fails and where it succeeds
SaveOutcome(filename) ==
    LET save_filename == IF filename # "" THEN filename ELSE buf.filename
        saved == save_file(buf, filename, TRUE)
    IN  save_filename # "" =>
            /\ save_file(buf, filename, FALSE) = Outcome(buf, "None", "IOError")
            /\ saved.ret = "True" /\ saved.exc = "none"
            /\ saved.b.filename = save_filename
            /\ ~saved.b.modified

\* a step of save_file: nothing is changed, or the file is written, the
\* buffer has a name and is not modified
SaveStep ==
    SaveFile =>
        \/ UNCHANGED <<buf, disk>>
        \/ /\ disk'.written /\ buf'.filename # "" /\ ~buf'.modified
           /\ buf'.undo_stack = buf.undo_stack /\ buf'.redo_stack = buf.redo_stack
           /\ buf'.data = buf.data

----------------------------------------------------------------------------
(* SpecText: a client calling the text mutations of Buffer, with           *)
(* insert_byte, undo and redo among them, on a buffer loaded from a text   *)
(* file and on a binary buffer                                             *)

\* calls made in one run
MaxTextOps == 3
\* most lines held
MaxLines == 3

\* the files loaded: empty, "A", "A\nB" and "AB\n"
TextContents == {<<>>, <<65>>, <<65, 10, 66>>, <<65, 66, 10>>}

\* the line indices passed: from the one before the first line (counted from
\* the end) to the one after the last
LineIdx(b) == (-Len(b.code_lines) - 1)..(Len(b.code_lines) + 1)
\* the columns passed
ColumnArgs == {-1, 0, 1, 3}
\* the texts passed: "", "B"
TextArgs == {<<>>, <<66>>}

InitText ==
    /\ cfg \in TextContents
    /\ buf \in {load_text_file(BufferInit(<<>>), cfg), BufferInit(cfg)}
    /\ ih = NoHandler
    /\ disk = NoDisk
    /\ pc = "idle" /\ ra = NoReplaceAll /\ wm = NoWindows
    /\ nops = 0

\* a call with outcome `out`, counted
TextCall(out) ==
    /\ nops < MaxTextOps
    /\ Len(out.b.code_lines) <= MaxLines
    /\ \A i \in 1..Len(out.b.code_lines) : Len(out.b.code_lines[i]) <= MaxLen
    /\ Len(out.b.data) <= MaxLen
    /\ buf' = out.b
    /\ nops' = nops + 1
    /\ UNCHANGED <<ih, cfg, wm, pc, ra>>

InsertText ==
    \E line \in LineIdx(buf), column \in ColumnArgs, text \in TextArgs :
        TextCall(insert_text(buf, line, column, text)) /\ UNCHANGED disk

DeleteText ==
    \E line \in LineIdx(buf), start_col \in ColumnArgs, end_col \in ColumnArgs :
        TextCall(delete_text(buf, line, start_col, end_col)) /\ UNCHANGED disk

InsertLine ==
    \E line \in LineIdx(buf), text \in TextArgs :
        TextCall(insert_line(buf, line, text)) /\ UNCHANGED disk

DeleteLine ==
    \E line \in LineIdx(buf) :
        TextCall(delete_line(buf, line)) /\ UNCHANGED disk

TextInsertByte ==
    \E position \in {0, 1}, value \in ByteVals :
        TextCall(insert_byte(buf, position, value)) /\ UNCHANGED disk

TextUndo == TextCall(undo(buf)) /\ UNCHANGED disk
TextRedo == TextCall(redo(buf)) /\ UNCHANGED disk

NextText ==
    \/ InsertText \/ DeleteText \/ InsertLine \/ DeleteLine
    \/ TextInsertByte \/ TextUndo \/ TextRedo

SpecText == InitText /\ [][NextText]_vars

\* what a text mutation leaves: where it is accepted and returns, undo_stack
\* as it was, redo_stack empty and modified true; otherwise the buffer as it
\* was
TextFrame(out, accepted) ==
    IF accepted /\ out.exc = "none"
    THEN /\ out.b.undo_stack = buf.undo_stack
         /\ out.b.redo_stack = <<>>
         /\ out.b.modified
    ELSE out.b = buf

\* a line index the text mutations accept: in text mode, before the end
LineAccepted(line) == buf.is_code_file /\ line < Len(buf.code_lines)

\* C28: each text mutation (insert_text, delete_text, insert_line,
\* delete_line) accepted in text mode leaves undo_stack as it was, empties
\* redo_stack and sets modified; called outside text mode, or with a line
\* index at or past the end where that is rejected, it changes nothing.
C28_TextMutationFrame ==
    \A line \in LineIdx(buf) :
        /\ \A column \in ColumnArgs, text \in TextArgs :
                TextFrame(insert_text(buf, line, column, text), LineAccepted(line))
        /\ \A start_col \in ColumnArgs, end_col \in ColumnArgs :
                TextFrame(delete_text(buf, line, start_col, end_col), LineAccepted(line))
        /\ \A text \in TextArgs :
                TextFrame(insert_line(buf, line, text), buf.is_code_file)
        /\ TextFrame(delete_line(buf, line), LineAccepted(line))

\* a text buffer with a line to change, an action to undo and one to redo:
\* delete_text on it empties redo_stack and sets modified
C28_Witness ==
    /\ buf.is_code_file /\ buf.code_lines # <<>>
    /\ buf.undo_stack # <<>> /\ buf.redo_stack # <<>>
    /\ delete_text(buf, 0, 0, 1).b.redo_stack = <<>>
    /\ delete_text(buf, 0, 0, 1).b.modified
    /\ delete_text(buf, 0, 0, 1).b.undo_stack = buf.undo_stack


----------------------------------------------------------------------------
(* The editor: WindowManager's buffers, the files, and the keys that open, *)
(* save, quit and close                                                    *)

\* the width of the hex window (of a terminal 105 columns wide), which gives
\* 16 bytes per line
HexWindowWidth == 62

\* the paths typed: "f" and "g"; a str of one character as a name, and
\* "Error" for the text _execute_open leaves in open_query when it fails
PathName(query) ==
    CASE query = <<>> -> ""
      [] query = <<102>> -> "f"
      [] query = <<103>> -> "g"
      [] OTHER -> "Error"
ErrorQuery == <<69, 114, 114, 111, 114>>

\* the files: for each path its bytes, <<-1>> where there is no such file
NoFile == <<-1>>
Exists(d, path) == d.files[path] # NoFile

\* the buffer get_active_buffer returns (the editor always holds one)
Active(w) == w.buffers[w.active_buffer_index + 1]
SetActive(w, b) == [w EXCEPT !.buffers[w.active_buffer_index + 1] = b]

\* WindowManager.add_buffer
add_buffer(w, b) ==
    [buffers |-> Append(w.buffers, set_bytes_per_line(b, HexWindowWidth)),
     active_buffer_index |-> Len(w.buffers)]

\* WindowManager.switch_buffer
switch_buffer(w, index) ==
    IF index < 0 \/ index >= Len(w.buffers) THEN w
    ELSE [w EXCEPT !.active_buffer_index = index]

\* the Buffer made for a path that does not exist (edit.py and _execute_open)
new_file_buffer(path) ==
    [BufferInit(<<>>) EXCEPT !.code_lines = << <<>> >>, !.filename = path,
                            !.is_code_file = TRUE, !.edit_mode = TRUE]

\* Buffer.load_file of a resident file whose name and bytes no lexer claims:
\* _detect_file_type leaves it a binary buffer
load_file(b, path, content) ==
    [b EXCEPT !.filename = path, !.modified = FALSE, !.cursor_pos = 0,
              !.undo_stack = <<>>, !.redo_stack = <<>>,
              !.file_size = Len(content), !.is_large_file = FALSE,
              !.data = content, !.is_code_file = FALSE, !.code_lines = <<>>]

\* what a key leaves: the handler, the windows, the files, and whether the
\* main loop ends (KeyboardInterrupt)
Edited(h, w, d, exit) == [ih |-> h, wm |-> w, disk |-> d, exit |-> exit]

\* the files after save_file wrote buffer b to path
Written(d, b, path) ==
    [d EXCEPT !.written = TRUE, !.whole_map = SavedBytes(b).whole_map,
              !.bytes = SavedBytes(b).bytes, !.files[path] = SavedBytes(b).bytes]

\* InputHandler._start_open
start_open(h) == [h EXCEPT !.open_mode = TRUE, !.open_query = <<>>, !.opened_by = "open"]

\* InputHandler._execute_open; io_ok is whether the open of the file (for
\* writing or for reading) succeeds
execute_open(h, w, d, io_ok) ==
    LET path == PathName(h.open_query)
        closed == [h EXCEPT !.open_mode = FALSE, !.open_query = <<>>]
        failed == [h EXCEPT !.open_query = ErrorQuery]
    IN  IF h.open_query = <<>> THEN Edited([h EXCEPT !.open_mode = FALSE], w, d, FALSE)
        ELSE IF Active(w).filename = ""
        THEN IF io_ok
             THEN Edited(closed, SetActive(w, save_file(Active(w), path, TRUE).b),
                         Written(d, Active(w), path), FALSE)
             ELSE Edited(failed, w, d, FALSE)
        ELSE IF ~Exists(d, path)
        THEN Edited(closed, add_buffer(w, new_file_buffer(path)), d, FALSE)
        ELSE IF io_ok
        THEN Edited(closed, add_buffer(w, load_file(BufferInit(<<>>), path, d.files[path])),
                    d, FALSE)
        ELSE Edited(failed, w, d, FALSE)

\* InputHandler._save
handler_save(h, w, d, io_ok) ==
    IF Active(w).filename = ""
    THEN Edited([h EXCEPT !.open_mode = TRUE, !.open_query = <<>>, !.opened_by = "save"],
                w, d, FALSE)
    ELSE IF io_ok
    THEN Edited(h, SetActive(w, save_file(Active(w), "", TRUE).b),
                Written(d, Active(w), Active(w).filename), FALSE)
    ELSE Edited(h, w, d, FALSE)

\* InputHandler._close_current_buffer
close_current_buffer(h, w, d) ==
    IF w.buffers = <<>> \/ Active(w).modified THEN Edited(h, w, d, FALSE)
    ELSE LET current_index == w.active_buffer_index
             popped == [w EXCEPT !.buffers = ItemDel(@, current_index)]
         IN  IF popped.buffers = <<>>
             THEN Edited(h, add_buffer(popped, BufferInit(<<>>)), d, FALSE)
             ELSE Edited(h, [popped EXCEPT !.active_buffer_index =
                                    IF current_index >= Len(popped.buffers)
                                    THEN Len(popped.buffers) - 1 ELSE current_index],
                         d, FALSE)

\* InputHandler._quit
quit(h, w, d) ==
    IF Active(w).modified /\ ~h.quit_warning_shown
    THEN Edited([h EXCEPT !.quit_warning_shown = TRUE], w, d, FALSE)
    ELSE IF Len(w.buffers) = 1
    THEN Edited([h EXCEPT !.quit_warning_shown = FALSE], w, d, TRUE)
    ELSE close_current_buffer([h EXCEPT !.quit_warning_shown = FALSE], w, d)

\* InputHandler._handle_code_input
handle_code_input(b, ch) ==
    IF ~b.is_code_file THEN b
    ELSE LET started == IF b.code_lines = <<>>
                        THEN [b EXCEPT !.code_lines = << <<>> >>,
                                       !.cursor_line = 0, !.cursor_column = 0]
                        ELSE b
             current_line == IF started.cursor_line >= Len(started.code_lines)
                             THEN <<>>
                             ELSE started.code_lines[ItemIdx(started.code_lines,
                                                             started.cursor_line)]
             new_line == Slice(current_line, 0, started.cursor_column) \o <<ch>>
                            \o Slice(current_line, started.cursor_column, Len(current_line))
         IN  [started EXCEPT !.code_lines = ItemAssign(@, started.cursor_line, new_line),
                             !.modified = TRUE,
                             !.cursor_column = @ + 1]


\* InputHandler._handle_enter, search mode off
handle_enter(b) ==
    IF ~b.is_code_file \/ ~b.edit_mode THEN move_line_start(move_down(b))
    ELSE IF b.code_lines = <<>>
    THEN [b EXCEPT !.code_lines = << <<>>, <<>> >>, !.cursor_line = 1,
                   !.cursor_column = 0, !.modified = TRUE]
    ELSE LET current_line == IF b.cursor_line >= Len(b.code_lines) THEN <<>>
                             ELSE b.code_lines[ItemIdx(b.code_lines, b.cursor_line)]
             text_before_cursor == Slice(current_line, 0, b.cursor_column)
             text_after_cursor == Slice(current_line, b.cursor_column, Len(current_line))
         IN  [b EXCEPT !.code_lines = ListInsert(ItemAssign(@, b.cursor_line,
                                                            text_before_cursor),
                                                 b.cursor_line + 1, text_after_cursor),
                       !.cursor_line = @ + 1,
                       !.cursor_column = 0,
                       !.modified = TRUE]

\* InputHandler._cut_line, on a text buffer too
editor_cut_line(b) ==
    IF b.is_code_file /\ b.edit_mode THEN delete_line(b, b.cursor_line).b
    ELSE cut_line(b)

\* InputHandler.handle_input while open_mode is on: Enter, Escape (followed
\* by next_ch, -1 when no key follows), Backspace, a printable character
open_input(h, w, d, ch, next_ch, io_ok) ==
    IF ch = 10 THEN execute_open(h, w, d, io_ok)
    ELSE IF ch = 27
    THEN IF 49 <= next_ch /\ next_ch <= 57
         THEN Edited(h, switch_buffer(w, next_ch - 49), d, FALSE)
         ELSE IF next_ch = 99
         THEN Edited([h EXCEPT !.case_sensitive = ~@], w, d, FALSE)
         ELSE Edited([h EXCEPT !.open_mode = FALSE, !.open_query = <<>>], w, d, FALSE)
    ELSE IF ch \in {263, 127}
    THEN IF h.open_query # <<>> THEN Edited([h EXCEPT !.open_query = Front(@)], w, d, FALSE)
         ELSE Edited(h, w, d, FALSE)
    ELSE IF 32 <= ch /\ ch <= 126
    THEN Edited([h EXCEPT !.open_query = Append(@, ch)], w, d, FALSE)
    ELSE Edited(h, w, d, FALSE)

\* command_handlers[ch]() of the editor's keys: Ctrl+X 24, Ctrl+W 23,
\* Ctrl+O 15, Enter, Ctrl+K 11, Ctrl+B 2
editor_command(h, w, d, ch, io_ok) ==
    CASE ch = 24 -> quit(h, w, d)
      [] ch = 23 -> handler_save(h, w, d, io_ok)
      [] ch = 15 -> Edited(start_open(h), w, d, FALSE)
      [] ch = 10 -> Edited(h, SetActive(w, handle_enter(Active(w))), d, FALSE)
      [] ch = 11 -> Edited(h, SetActive(w, editor_cut_line(Active(w))), d, FALSE)
      [] ch = 2 -> Edited(h, SetActive(w, undo(Active(w)).b), d, FALSE)
      [] OTHER -> Edited(h, w, d, FALSE)

\* InputHandler.handle_input in the editor, search, replace and insert mode
\* off
editor_input(h, w, d, ch, next_ch, io_ok) ==
    IF h.open_mode THEN open_input(h, w, d, ch, next_ch, io_ok)
    ELSE IF ch = 27
    THEN IF 49 <= next_ch /\ next_ch <= 57
         THEN Edited(h, switch_buffer(w, next_ch - 49), d, FALSE)
         ELSE Edited(h, w, d, FALSE)
    ELSE IF Active(w).is_code_file /\ Active(w).edit_mode /\ 32 <= ch /\ ch <= 126
    THEN Edited(h, SetActive(w, handle_code_input(Active(w), ch)), d, FALSE)
    ELSE editor_command(h, w, d, ch, io_ok)

----------------------------------------------------------------------------
(* SpecEditor: the keys of a user who opens, saves, edits, switches and    *)
(* quits, in an editor started with no file, with the file "f", or with    *)
(* "f" and the new file "g"                                                *)

\* keys handled in one run
MaxEditorKeys == 5
\* most buffers open
MaxBuffers == 3

\* the bytes of the file "f"
FileContent == <<0, 65>>

\* the files when the editor starts: "f" is there
InitFiles ==
    [written |-> FALSE, whole_map |-> FALSE, bytes |-> <<>>,
     files |-> [path \in {"f", "g", "Error"} |->
                    IF path = "f" THEN FileContent ELSE NoFile]]

\* edit.py, main_with_args: one buffer per file named, an unnamed empty one
\* when none is
StartedWith ==
    { add_buffer(NoWindows, BufferInit(<<>>)),
      add_buffer(NoWindows, load_file(BufferInit(<<>>), "f", FileContent)),
      add_buffer(add_buffer(NoWindows, load_file(BufferInit(<<>>), "f", FileContent)),
                 new_file_buffer("g")) }

InitEditor ==
    /\ wm \in StartedWith
    /\ buf = Active(wm)
    /\ cfg = <<>>
    /\ ih = NoHandler
    /\ disk = InitFiles
    /\ pc = "idle" /\ ra = NoReplaceAll
    /\ nops = 0

\* key ch handled, with what it leaves
EditorHandled(out, ch) ==
    /\ pc = "idle" /\ nops < MaxEditorKeys
    /\ Len(out.wm.buffers) <= MaxBuffers
    /\ out.ih.open_query \in {<<>>, <<102>>, <<103>>, ErrorQuery}
    /\ \A i \in 1..Len(out.wm.buffers) :
            /\ Len(out.wm.buffers[i].code_lines) <= MaxLines
            /\ \A j \in 1..Len(out.wm.buffers[i].code_lines) :
                    Len(out.wm.buffers[i].code_lines[j]) <= MaxQuery
    /\ ih' = [out.ih EXCEPT !.last_key = ch]
    /\ wm' = out.wm
    /\ buf' = Active(out.wm)
    /\ disk' = out.disk
    /\ pc' = IF out.exit THEN "exited" ELSE pc
    /\ nops' = nops + 1
    /\ UNCHANGED <<cfg, ra>>

EditorKey(ch, next_ch, io_ok) ==
    \E out \in {editor_input(ih, wm, disk, ch, next_ch, io_ok)} : EditorHandled(out, ch)

\* Ctrl+O
OpenKey == EditorKey(15, -1, TRUE) /\ UNCHANGED cfg
\* Ctrl+W; the write succeeds or fails
SaveKey == \E io_ok \in BOOLEAN : EditorKey(23, -1, io_ok) /\ UNCHANGED cfg
\* Ctrl+X
QuitKey == EditorKey(24, -1, TRUE) /\ UNCHANGED cfg
\* 'f', 'g', Backspace
PathKey == \E ch \in {102, 103, 127} : EditorKey(ch, -1, TRUE) /\ UNCHANGED cfg
\* Enter; the open of the file succeeds or fails
EnterKey == \E io_ok \in BOOLEAN : EditorKey(10, -1, io_ok) /\ UNCHANGED cfg
\* Escape, Alt+1, Alt+2
EscapeKey == \E next_ch \in {-1, 49, 50} : EditorKey(27, next_ch, TRUE) /\ UNCHANGED cfg
\* Ctrl+K, Ctrl+B
EditKey == \E ch \in {11, 2} : EditorKey(ch, -1, TRUE) /\ UNCHANGED cfg

NextEditor ==
    OpenKey \/ SaveKey \/ QuitKey \/ PathKey \/ EnterKey \/ EscapeKey \/ EditKey

SpecEditor == InitEditor /\ [][NextEditor]_vars


\* Enter handled in the open mode the open key started, with a path typed
OpenEnterStep ==
    /\ nops' # nops /\ ih'.last_key = 10
    /\ ih.open_mode /\ ih.opened_by = "open"
    /\ ih.open_query \in {<<102>>, <<103>>}

\* the buffer opened for path: the file's bytes where it exists, a new empty
\* text buffer where it does not
OpenedBuffer(b, path) ==
    /\ b.filename = path /\ ~b.modified
    /\ IF Exists(disk, path)
       THEN b.data = disk.files[path]
       ELSE b.is_code_file /\ b.data = <<>> /\ b.code_lines = << <<>> >>

\* C25: the open key, a path and Enter open that path as a buffer (loaded if
\* the file exists, a new empty text buffer if not) and write to no file,
\* whatever the active buffer is.
C25_OpenNeverWrites ==
    [][OpenEnterStep =>
          /\ disk' = disk
          /\ ih'.open_query # ErrorQuery =>
                /\ Len(wm'.buffers) = Len(wm.buffers) + 1
                /\ OpenedBuffer(Active(wm'), PathName(ih.open_query))]_vars

\* a quit key handled outside the open prompt (where no command key acts)
QuitStep == nops' # nops /\ ih'.last_key = 24 /\ ~ih.open_mode

\* the first quit key on a modified buffer: the warning and nothing else
FirstQuit ==
    (QuitStep /\ Active(wm).modified /\ ~ih.quit_warning_shown) =>
        /\ ih'.quit_warning_shown
        /\ wm' = wm /\ disk' = disk /\ pc' = pc

\* the quit key right after it: the editor exits, or the active buffer is
\* closed
SecondQuit ==
    (QuitStep /\ Active(wm).modified /\ ih.quit_warning_shown /\ ih.last_key = 24) =>
        IF Len(wm.buffers) = 1 THEN pc' = "exited"
        ELSE /\ pc' = pc
             /\ wm'.buffers = ItemDel(wm.buffers, wm.active_buffer_index)

\* C26: when the active buffer is modified, the first quit key shows the
\* unsaved-changes warning and changes nothing else, and a second consecutive
\* quit key discards the changes: the editor exits when one buffer is open,
\* and the active buffer is closed when several are.
C26_QuitTwiceDiscards ==
    [][FirstQuit /\ SecondQuit]_vars

\* the main loop ends, or a buffer is closed
ExitStep == pc = "idle" /\ pc' = "exited"
CloseStep == pc' = pc /\ nops' # nops /\ Len(wm'.buffers) < Len(wm.buffers)

\* C34: the editor exits, or closes the active buffer, while that buffer is
\* modified only when the key handled just before was a quit key that left
\* the unsaved-changes warning showing.
C34_WarningBeforeDiscard ==
    [][((ExitStep \/ CloseStep) /\ Active(wm).modified) =>
          (ih.last_key = 24 /\ ih.quit_warning_shown)]_vars

----------------------------------------------------------------------------
(* SpecWildcard: a client that calls find_wildcard on a resident binary    *)
(* buffer                                                                  *)

\* the longest content and the longest pattern drawn from the alphabets
MaxWildLen == 3
MaxWildPattern == 2

\* the content: every string of '\', '5', 'd' and '.' of at most MaxWildLen
\* characters, and "hello", "hallo", "hxxllo"
WildContents ==
    UNION {[1..n -> {92, 53, 100, 46}] : n \in 0..MaxWildLen}
        \cup { <<104, 101, 108, 108, 111>>, <<104, 97, 108, 108, 111>>,
               <<104, 120, 120, 108, 108, 111>> }

\* the patterns: every string of '?', '*', '\', 'd' and '5' of one to
\* MaxWildPattern characters, and "h?llo"
WildPatterns ==
    UNION {[1..n -> {63, 42, 92, 100, 53}] : n \in 1..MaxWildPattern}
        \cup { <<104, 63, 108, 108, 111>> }

InitWildcard ==
    /\ cfg \in WildContents
    /\ buf = BufferInit(cfg)
    /\ ih = NoHandler
    /\ disk = NoDisk
    /\ pc = "idle" /\ ra = NoReplaceAll /\ wm = NoWindows
    /\ nops = 0

\* find_wildcard(pattern, start_pos)
FindWildcardCall ==
    \E pattern \in WildPatterns, start_pos \in {0, 1} :
        \E result \in {find_wildcard(buf, pattern, start_pos)} :
            /\ ih' = [ih EXCEPT !.called = [method |-> "find_wildcard",
                                            pattern |-> pattern,
                                            search_type |-> "wildcard",
                                            case_sensitive |-> TRUE,
                                            start_pos |-> start_pos],
                                !.returned = IF Found(result) THEN <<result>>
                                             ELSE <<>>]
            /\ UNCHANGED <<buf, cfg, wm, disk, pc, ra, nops>>

NextWildcard == FindWildcardCall \/ MoveRight

SpecWildcard == InitWildcard /\ [][NextWildcard]_vars

\* whether the wildcard pattern, read as the words describe it, matches
\* exactly the characters str[i..j): '?' one character, '*' any run, every
\* other character itself
RECURSIVE WildMatches(_, _, _, _)
WildMatches(pattern, str, i, j) ==
    IF pattern = <<>> THEN i = j
    ELSE IF Head(pattern) = 42
    THEN \E k \in i..j : WildMatches(Tail(pattern), str, k, j)
    ELSE /\ i < j
         /\ Head(pattern) = 63 \/ Head(pattern) = str[i + 1]
         /\ WildMatches(Tail(pattern), str, i + 1, j)

\* the offsets from start on at which some range matches the pattern
WildStarts(pattern, str, start) ==
    {p \in start..Len(str) : \E j \in p..Len(str) : WildMatches(pattern, str, p, j)}

\* C31: find_wildcard returns a match exactly when some range of the ASCII
\* projection at or after the start matches the pattern with '?' as one
\* character, '*' as any run and every other character (backslash too) as
\* itself; the match starts at the first such offset, its range matches the
\* pattern, and without '*' its length is the pattern's length.
C31_WildcardLiteral ==
    [][ih'.called.method = "find_wildcard" /\ ih' # ih =>
        LET c == ih'.called
            str == AsciiStr(buf.data)
            starts == WildStarts(c.pattern, str, c.start_pos)
        IN  IF starts = {} THEN ih'.returned = <<>>
            ELSE /\ ih'.returned # <<>>
                 /\ ih'.returned[1].position = MinOf(starts)
                 /\ WildMatches(c.pattern, str, ih'.returned[1].position,
                                ih'.returned[1].position + ih'.returned[1].length)
                 /\ 42 \notin {c.pattern[i] : i \in 1..Len(c.pattern)}
                        => ih'.returned[1].length = Len(c.pattern)]_vars

----------------------------------------------------------------------------
(* Loading: the size test of load_file, the sample, _is_binary_file and    *)
(* _detect_file_type                                                       *)

\* the length of the sample load_file hands to _detect_file_type
SampleSize == 4096

\* bytes.decode('utf-8', errors='replace'): bytes below 128 decode to
\* themselves
DecodeText(bs) ==
    IF \A i \in 1..Len(bs) : bs[i] < 128 THEN bs ELSE Utf8Decode(bs)

\* _is_binary_file calling a sample binary from one tenth of zero bytes on
is_binary_file_strict(sample) ==
    LET null_count == Cardinality({i \in 1..Len(sample) : sample[i] = 0})
        printable_count ==
            Cardinality({i \in 1..Len(sample) :
                            \/ 32 <= sample[i] /\ sample[i] <= 126
                            \/ sample[i] \in {9, 10, 13}})
    IN  10 * null_count >= Len(sample) \/ 10 * printable_count < 8 * Len(sample)

\* Buffer._is_binary_file; the comparisons with len(sample) * 0.1 and
\* len(sample) * 0.8 in tenths (the products are exact in floating point
\* wherever they are whole, for every length up to SampleSize)
is_binary_file(sample) ==
    LET null_count == Cardinality({i \in 1..Len(sample) : sample[i] = 0})
        printable_count ==
            Cardinality({i \in 1..Len(sample) :
                            \/ 32 <= sample[i] /\ sample[i] <= 126
                            \/ sample[i] \in {9, 10, 13}})
    IN  10 * null_count > Len(sample) \/ 10 * printable_count < 8 * Len(sample)

\* the offsets in a..b-1 at which mapped file f holds a line feed; in a text
\* file (seed below zero) they are the last byte of every line
FileNewlines(f, a, b) ==
    IF f.seed >= 0 THEN {i \in a..(b - 1) : FileByte(f, i) = 10}
    ELSE {n \in {k * (-f.seed) - 1 : k \in 1..(b \div (-f.seed))} : n >= a}

\* str.splitlines() of the bytes a..b-1 of a mapped text file whose line
\* feeds are at newlines; a line is kept as the range of the file it decodes
\* (the text files of the model are ASCII)
RECURSIVE RangeLines(_, _, _)
RangeLines(newlines, a, b) ==
    IF a >= b THEN <<>>
    ELSE IF newlines = {} THEN <<[start |-> a, length |-> b - a]>>
    ELSE <<[start |-> a, length |-> MinOf(newlines) - a]>>
            \o RangeLines(newlines \ {MinOf(newlines)}, MinOf(newlines) + 1, b)

\* file_map[a:b].decode('utf-8', errors='replace').splitlines()
MappedLines(f, a, b) == RangeLines(FileNewlines(f, a, b), a, b)

\* Buffer._load_text_chunk
load_text_chunk(b, chunk_index) ==
    LET start_pos == chunk_index * CHUNK_SIZE
        end_pos == Min(start_pos + CHUNK_SIZE, b.file_size)
    IN  IF ~b.file_map.open THEN b
        ELSE IF start_pos >= b.file_size THEN b
        ELSE IF chunk_index = 0
        THEN [b EXCEPT !.code_lines = MappedLines(b.file_map, start_pos, end_pos)]
        ELSE [b EXCEPT !.code_lines = @ \o MappedLines(b.file_map, start_pos, end_pos)]

\* Buffer._detect_file_type; language is what detect_language returns for
\* the filename and the decoded sample, "None" when it knows none
detect_file_type(b, sample, language) ==
    LET binary == [b EXCEPT !.is_code_file = FALSE, !.code_lines = <<>>]
    IN  IF is_binary_file(sample) THEN binary
        ELSE IF b.filename = "" THEN binary
        ELSE IF language = "None" THEN binary
        ELSE IF b.is_large_file
        THEN load_text_chunk([binary EXCEPT !.is_code_file = TRUE,
                                            !.edit_mode = TRUE], 0)
        ELSE [binary EXCEPT !.is_code_file = TRUE, !.edit_mode = TRUE,
                            !.code_lines = SplitLines(DecodeText(b.data))]

\* a file: its size, and its bytes either written out (content) or, for a
\* file above the large-file threshold, computed from the seed
FileBytes(file, a, b) ==
    IF file.size > LargeFileThreshold THEN FileSlice(file, a, b)
    ELSE Slice(file.content, a, b)

\* Buffer.load_file of a file at or below the large-file threshold
load_resident_file(b, filename, file, language) ==
    LET read == [b EXCEPT !.filename = filename, !.modified = FALSE,
                          !.cursor_pos = 0, !.undo_stack = <<>>,
                          !.redo_stack = <<>>, !.file_size = file.size,
                          !.is_large_file = FALSE, !.data = file.content]
    IN  detect_file_type(read, Slice(read.data, 0, Min(SampleSize, Len(read.data))),
                         language)

\* Buffer.load_file of a file above the threshold, with _load_large_file
load_mapped_file(b, filename, file, language) ==
    LET mapped == load_chunk([b EXCEPT !.filename = filename, !.modified = FALSE,
                                       !.cursor_pos = 0, !.undo_stack = <<>>,
                                       !.redo_stack = <<>>, !.file_size = file.size,
                                       !.is_large_file = TRUE,
                                       !.file_map = [open |-> TRUE, size |-> file.size,
                                                     seed |-> file.seed]],
                             0)
        chunk == mapped.loaded_chunks[0]
    IN  detect_file_type(mapped,
                         FileSlice(mapped.file_map, chunk.start,
                                   chunk.start + Min(SampleSize, chunk.length)),
                         language)

\* Buffer.load_file
load_any_file(b, filename, file, language) ==
    IF file.size > LargeFileThreshold
    THEN load_mapped_file(b, filename, file, language)
    ELSE load_resident_file(b, filename, file, language)

----------------------------------------------------------------------------
(* SpecLoad: a file is loaded into a fresh Buffer and saved under another  *)
(* name without an edit                                                    *)

\* the longest of the short files
MaxFileLen == 10

\* the bytes of a file: z zero bytes, u bytes 0x01, then p bytes of text,
\* the letter 'A' with a line feed as every line_len-th of them
Content(z, u, p, line_len) ==
    [i \in 1..z |-> 0] \o [i \in 1..u |-> 1]
        \o [i \in 1..p |-> IF i % line_len = 0 THEN 10 ELSE 65]

ResidentFile(content) == [size |-> Len(content), seed |-> 0, content |-> content]
MappedFile(size, seed) == [size |-> size, seed |-> seed, content |-> <<>>]

\* the short files, of at most MaxFileLen bytes
ShortFiles ==
    { ResidentFile(Content(c[1], c[2], c[3], 3)) :
        c \in {t \in (0..MaxFileLen) \X (0..MaxFileLen) \X (0..MaxFileLen) :
                    t[1] + t[2] + t[3] <= MaxFileLen} }

\* files about as long as the sample: 409 and 410 zero bytes of 4096, 3277
\* and 3276 bytes of text of 4096, and 4096 bytes of text followed by 904
\* zero bytes
SampleFiles ==
    { ResidentFile(Content(409, 0, 3687, 1024)),
      ResidentFile(Content(410, 0, 3686, 1024)),
      ResidentFile(Content(0, 819, 3277, 1024)),
      ResidentFile(Content(0, 820, 3276, 1024)),
      ResidentFile(Content(0, 0, SampleSize, 1024) \o [i \in 1..904 |-> 0]) }

\* files above the large-file threshold: one of bytes 0..250 in turn, one of
\* text in lines of half of CHUNK_SIZE bytes (twenty lines and one more letter)
MappedFiles ==
    { MappedFile(LargeFileThreshold + 1, 0),
      MappedFile(LargeFileThreshold + 1, -(CHUNK_SIZE \div 2)) }

LoadFiles == ShortFiles \cup SampleFiles \cup MappedFiles

\* what detect_language answers
Languages == {"None", "Python"}

InitLoad ==
    /\ cfg \in LoadFiles
    /\ buf = BufferInit(<<>>)
    /\ ih = NoHandler
    /\ disk = NoDisk
    /\ pc = "idle" /\ ra = NoReplaceAll /\ wm = NoWindows
    /\ nops = 0

\* Buffer().load_file("f")
LoadFile ==
    /\ pc = "idle"
    /\ \E language \in Languages :
          buf' = load_any_file(buf, "f", cfg, language)
    /\ pc' = "loaded"
    /\ UNCHANGED <<ih, cfg, wm, disk, ra, nops>>

\* save_file("g") on the loaded buffer
SaveLoaded ==
    /\ pc = "loaded"
    /\ \E io_ok \in BOOLEAN :
          \E out \in {save_file(buf, "g", io_ok)} :
              /\ buf' = out.b
              /\ disk' = IF out.ret = "True"
                         THEN [written |-> TRUE,
                               whole_map |-> SavedBytes(buf).whole_map,
                               bytes |-> SavedBytes(buf).bytes]
                         ELSE disk
    /\ pc' = "saved"
    /\ UNCHANGED <<ih, cfg, wm, ra, nops>>

NextLoad == LoadFile \/ SaveLoaded

SpecLoad == InitLoad /\ [][NextLoad]_vars

\* the sample of a file: its first min(SampleSize, size) bytes
Sample(file) == FileBytes(file, 0, Min(SampleSize, file.size))

ZeroCount(sample) == Cardinality({i \in 1..Len(sample) : sample[i] = 0})
PrintableCount(sample) ==
    Cardinality({i \in 1..Len(sample) :
                    \/ 32 <= sample[i] /\ sample[i] <= 126
                    \/ sample[i] \in {9, 10, 13}})

\* at most 10% zero bytes and at least 80% printable, tab, LF or CR bytes
TextSample(sample) ==
    /\ 10 * ZeroCount(sample) <= Len(sample)
    /\ 10 * PrintableCount(sample) >= 8 * Len(sample)

\* C32: loading a file puts the buffer in text mode exactly when the sample
\* has at most 10% zero bytes and at least 80% printable, tab, LF or CR bytes
\* and the highlighter names a language; otherwise the buffer is binary and
\* its line array is empty.
C32_TextModeAtLoad ==
    /\ \A language \in Languages :
          LET after == load_any_file(BufferInit(<<>>), "f", cfg, language)
          IN  /\ after.is_code_file
                    <=> (TextSample(Sample(cfg)) /\ language # "None")
              /\ ~after.is_code_file => after.code_lines = <<>>
    /\ pc # "idle" =>
          /\ buf.is_code_file => TextSample(Sample(cfg))
          /\ ~buf.is_code_file => buf.code_lines = <<>>

\* a file of exactly one tenth zero bytes and eight tenths text was loaded
\* as text
C32_Witness ==
    /\ pc = "loaded"
    /\ buf.is_code_file
    /\ cfg.size > 0
    /\ 10 * ZeroCount(Sample(cfg)) = Len(Sample(cfg))
    /\ 10 * PrintableCount(Sample(cfg)) = 8 * Len(Sample(cfg))

----------------------------------------------------------------------------
(* The modified flag and the content last loaded or saved *)

\* the content at the most recent load or successful save: what save_file
\* wrote last, before any save what the buffer was constructed with
LastSaved == IF disk.written THEN disk.bytes ELSE cfg

\* C33: a resident binary buffer whose modified flag is false holds exactly
\* the content of the most recent load or successful save.
C33_UnmodifiedMeansSaved ==
    (~buf.modified /\ ~buf.is_code_file /\ ~buf.is_large_file)
        => buf.data = LastSaved

----------------------------------------------------------------------------
(* What the dispatcher's replacements overwrite *)

\* a replacement was made by the Enter or the Ctrl+A of replace mode: the
\* actions it logged (the action itself, or the sub-actions of the batch),
\* each with the bytes it overwrote
ReplaceStep ==
    /\ ih.replace_mode /\ ~ih'.replace_mode
    /\ buf'.undo_stack # buf.undo_stack
Replaced(action) ==
    IF action.action_type = "batch_replace" THEN action.batch_actions
    ELSE <<action>>

\* whether bytes are a match of the search that gave search_results
IsMatch(bytes, search) ==
    /\ MatchesAt(bytes, 0, search[1], search[2], search[3])
    /\ Len(bytes) = IF search[2] = "hex" THEN Len(FromHex(search[1]).bytes)
                    ELSE Len(search[1])

\* C37: every range a single replace or a replace-all of the dispatcher
\* overwrites on a binary buffer holds, when it is overwritten, bytes that
\* match the pattern searched for.
C37_ReplacesOnlyMatches ==
    [][(ReplaceStep /\ ih.last_search # <<>> /\ ih.last_search[2] \in {"text", "hex"}) =>
          \A i \in 1..Len(Replaced(Last(buf'.undo_stack))) :
              IsMatch(Replaced(Last(buf'.undo_stack))[i].old_data, ih.last_search)]_vars

----------------------------------------------------------------------------
(* Searching a buffer loaded in chunked mode *)

\* the offsets, within the first 251 bytes of the file, at which a buffer
\* holding the whole file resident has the byte 'A': find_all for the text
\* "A" returns every one of them (C16)
ResidentOccurrences == {p \in 0..250 : FileByte(buf.file_map, p) = 65}

\* C39: find_all on a buffer loaded in chunked mode returns the positions
\* find_all returns on the same file loaded resident; so a search for the
\* text "A" reports every offset at which the file holds that byte.
C39_ChunkedFindAll ==
    buf.is_large_file =>
        ResidentOccurrences \subseteq Positions(find_all(buf, <<65>>, "text", TRUE))

----------------------------------------------------------------------------
(* Load, then save without an edit *)

\* C40: a file loaded and saved without an edit is written whole: a binary
\* buffer writes the file's bytes (a chunked one copies the mapping), a text
\* buffer writes the lines of the whole file, above the large-file threshold
\* too.
C40_LoadSaveWhole ==
    (pc = "saved" /\ disk.written) =>
        IF buf.is_code_file
        THEN IF buf.is_large_file
             THEN disk.bytes = MappedLines(buf.file_map, 0, cfg.size)
             ELSE SplitLines(DecodeText(disk.bytes))
                    = SplitLines(DecodeText(cfg.content))
        ELSE IF buf.is_large_file THEN disk.whole_map
        ELSE ~disk.whole_map /\ disk.bytes = cfg.content

----------------------------------------------------------------------------
(* InputHandler: the keys of a text buffer (is_code_file true). A handler  *)
(* that raises leaves the assignments it made before the raise.            *)

\* Buffer.get_code_line raises IndexError: code_lines has no such item
CodeLineRaises(b, line_number) ==
    /\ b.is_code_file
    /\ line_number < Len(b.code_lines)
    /\ ~HasIndex(b.code_lines, line_number)

\* Buffer.get_code_line
get_code_line(b, line_number) ==
    IF ~b.is_code_file \/ line_number >= Len(b.code_lines)
          \/ ~HasIndex(b.code_lines, line_number)
    THEN <<>>
    ELSE b.code_lines[ItemIdx(b.code_lines, line_number)]

\* the column brought back into the line at cursor_line, as _move_up,
\* _move_down, _page_up and _page_down do after they set cursor_line
ColumnInLine(b) ==
    IF CodeLineRaises(b, b.cursor_line) THEN b
    ELSE [b EXCEPT !.cursor_column =
                      IF Len(get_code_line(b, b.cursor_line)) = 0 THEN 0
                      ELSE Min(@, Len(get_code_line(b, b.cursor_line)))]

\* InputHandler._move_left
code_move_left(b) ==
    IF ~b.is_code_file THEN move_left(b)
    ELSE IF b.cursor_column > 0 THEN [b EXCEPT !.cursor_column = @ - 1]
    ELSE IF b.cursor_line > 0
    THEN [b EXCEPT !.cursor_line = @ - 1,
                   !.cursor_column = Len(get_code_line(b, b.cursor_line - 1))]
    ELSE b

\* InputHandler._move_right
code_move_right(b) ==
    IF ~b.is_code_file THEN move_right(b)
    ELSE IF CodeLineRaises(b, b.cursor_line) THEN b
    ELSE IF b.cursor_column < Len(get_code_line(b, b.cursor_line))
    THEN [b EXCEPT !.cursor_column = @ + 1]
    ELSE IF b.cursor_line < Len(b.code_lines) - 1
    THEN [b EXCEPT !.cursor_line = @ + 1, !.cursor_column = 0]
    ELSE b

\* InputHandler._move_up
code_move_up(b) ==
    IF ~b.is_code_file THEN move_up(b)
    ELSE IF b.cursor_line > 0 THEN ColumnInLine([b EXCEPT !.cursor_line = @ - 1])
    ELSE b

\* InputHandler._move_down
code_move_down(b) ==
    IF ~b.is_code_file THEN move_down(b)
    ELSE IF b.cursor_line < Len(b.code_lines) - 1
    THEN ColumnInLine([b EXCEPT !.cursor_line = @ + 1])
    ELSE b

\* InputHandler._move_line_start
code_move_line_start(b) ==
    IF ~b.is_code_file THEN move_line_start(b)
    ELSE [b EXCEPT !.cursor_column = 0]

\* InputHandler._move_line_end
code_move_line_end(b) ==
    IF ~b.is_code_file THEN move_line_end(b)
    ELSE IF CodeLineRaises(b, b.cursor_line) THEN b
    ELSE [b EXCEPT !.cursor_column = Len(get_code_line(b, b.cursor_line))]

\* InputHandler._page_up
code_page_up(b) ==
    IF ~b.is_code_file THEN page_up(b)
    ELSE ColumnInLine([b EXCEPT !.cursor_line = Max(0, @ - (Height - 3))])

\* InputHandler._page_down
code_page_down(b) ==
    IF ~b.is_code_file THEN page_down(b)
    ELSE ColumnInLine([b EXCEPT !.cursor_line =
                                   Min(Len(b.code_lines) - 1, @ + (Height - 3))])

\* InputHandler._delete_char
code_delete_char(b) ==
    IF ~b.is_code_file \/ ~b.edit_mode THEN delete_char(b)
    ELSE IF CodeLineRaises(b, b.cursor_line) THEN b
    ELSE IF b.cursor_column < Len(get_code_line(b, b.cursor_line))
    THEN [b EXCEPT !.code_lines =
                      ItemAssign(@, b.cursor_line,
                                 Slice(get_code_line(b, b.cursor_line), 0, b.cursor_column)
                                    \o Slice(get_code_line(b, b.cursor_line),
                                             b.cursor_column + 1,
                                             Len(get_code_line(b, b.cursor_line)))),
                   !.modified = TRUE]
    ELSE IF b.cursor_line < Len(b.code_lines) - 1
    THEN [delete_line([b EXCEPT !.code_lines =
                                   ItemAssign(@, b.cursor_line,
                                              get_code_line(b, b.cursor_line)
                                                 \o get_code_line(b, b.cursor_line + 1))],
                      b.cursor_line + 1).b
             EXCEPT !.cursor_column = b.cursor_column, !.modified = TRUE]
    ELSE b

\* InputHandler._backspace
code_backspace(b) ==
    IF ~b.is_code_file \/ ~b.edit_mode THEN backspace(b)
    ELSE IF b.cursor_column > 0
    THEN IF ~HasIndex(b.code_lines, b.cursor_line) THEN b
         ELSE [b EXCEPT !.code_lines =
                           ItemAssign(@, b.cursor_line,
                                      Slice(get_code_line(b, b.cursor_line), 0,
                                            b.cursor_column - 1)
                                         \o Slice(get_code_line(b, b.cursor_line),
                                                  b.cursor_column,
                                                  Len(get_code_line(b, b.cursor_line)))),
                        !.cursor_column = @ - 1,
                        !.modified = TRUE]
    ELSE IF b.cursor_line > 0
    THEN IF ~HasIndex(b.code_lines, b.cursor_line - 1) THEN b
         ELSE [delete_line([b EXCEPT !.code_lines =
                                        ItemAssign(@, b.cursor_line - 1,
                                                   get_code_line(b, b.cursor_line - 1)
                                                      \o get_code_line(b, b.cursor_line))],
                           b.cursor_line).b
                  EXCEPT !.cursor_line = @ - 1,
                         !.cursor_column = Len(get_code_line(b, b.cursor_line - 1)),
                         !.modified = TRUE]
    ELSE b

\* InputHandler._handle_enter on a text buffer whose edit_mode may be off
code_handle_enter(b) ==
    IF b.is_code_file /\ ~b.edit_mode THEN code_move_line_start(code_move_down(b))
    ELSE handle_enter(b)

\* InputHandler._handle_tab on a text buffer in edit mode
code_handle_tab(b) ==
    insert_text(b, b.cursor_line, b.cursor_column, <<32, 32, 32, 32>>).b


----------------------------------------------------------------------------
(* InputHandler: search and replace on a text buffer. The SearchEngine     *)
(* searches Buffer.data; the handlers find the line of a result by adding  *)
(* up the encoded lengths of code_lines.                                   *)

\* for i, line in enumerate(buf.code_lines): the line whose bytes, with its
\* line feed, hold `position`, and the offset at which that line begins
RECURSIVE LineAt(_, _, _, _)
LineAt(lines, position, i, line_start) ==
    IF i >= Len(lines) THEN [found |-> FALSE, line |-> 0, start |-> 0]
    ELSE IF line_start <= position
              /\ position < line_start + Len(Utf8Encode(lines[i + 1])) + 1
    THEN [found |-> TRUE, line |-> i, start |-> line_start]
    ELSE LineAt(lines, position, i + 1, line_start + Len(Utf8Encode(lines[i + 1])) + 1)

\* the cursor put on the line `at` of a result
CursorAt(b, result, at) ==
    IF ~at.found THEN b
    ELSE [b EXCEPT !.cursor_line = at.line,
                   !.cursor_column = result.position - at.start]

\* the cursor put on a result, as _execute_search and _find_next do
cursor_to_result(b, result) ==
    IF ~b.is_code_file THEN [b EXCEPT !.cursor_pos = result.position]
    ELSE CursorAt(b, result, LineAt(b.code_lines, result.position, 0, 0))

\* _execute_search once find_all has returned results, on either kind of
\* buffer
code_searched(h, b, results) ==
    IF results = <<>> THEN Searched(h, b, results)
    ELSE Handled(Searched(h, b, results).ih, cursor_to_result(b, results[1]))

\* InputHandler._execute_search
code_execute_search(h, b) ==
    IF h.search_query = <<>> THEN Handled([h EXCEPT !.search_mode = FALSE], b)
    ELSE code_searched([h EXCEPT !.last_search = <<h.search_query, h.search_type,
                                                   h.case_sensitive>>],
                       b, find_all(b, h.search_query, h.search_type, h.case_sensitive))

\* InputHandler._find_next
code_find_next(h, b) ==
    IF h.search_results = <<>> THEN Handled(start_search(h), b)
    ELSE Handled(handler_find_next(h, b).ih,
                 cursor_to_result(b, h.search_results[
                                         handler_find_next(h, b).ih.current_result_index + 1]))

\* new_line = line[:col_start] + self.replace_query + line[col_end:]
ReplacedLine(h, line, col_start, length) ==
    Slice(line, 0, col_start) \o h.replace_query
        \o Slice(line, col_start + length, Len(line))

\* the action _prepare_replace_action returns once its loop has come to the
\* line `at` of the result; found is FALSE where it returns None
PreparedAt(h, b, result, at) ==
    IF ~at.found THEN [found |-> FALSE, action |-> UndoAction(0, <<>>, <<>>, "none")]
    ELSE [found |-> TRUE,
          action |-> UndoAction(at.line, Utf8Encode(b.code_lines[at.line + 1]),
                                Utf8Encode(ReplacedLine(h, b.code_lines[at.line + 1],
                                                        result.position - at.start,
                                                        result.length)),
                                "replace_line")]

\* what _perform_replacement leaves once its loop has come to the line `at`
PerformedAt(h, b, result, at) ==
    IF ~at.found THEN [b EXCEPT !.modified = TRUE]
    ELSE [b EXCEPT !.code_lines[at.line + 1] =
                         ReplacedLine(h, @, result.position - at.start, result.length),
                   !.cursor_line = at.line,
                   !.cursor_column = result.position - at.start + Len(h.replace_query),
                   !.modified = TRUE]

\* InputHandler._prepare_replace_action on a text buffer
code_prepare_replace_action(h, b, result) ==
    PreparedAt(h, b, result, LineAt(b.code_lines, result.position, 0, 0))

\* InputHandler._perform_replacement
code_perform_replacement(h, b, result) ==
    IF ~b.is_code_file THEN perform_replacement(h, b, result)
    ELSE IF ~ReplacementBytes(h).ok THEN b
    ELSE PerformedAt(h, b, result, LineAt(b.code_lines, result.position, 0, 0))

\* InputHandler._replace_match
code_replace_match(h, b, result) ==
    IF ~b.is_code_file THEN replace_match(h, b, result)
    ELSE IF ~ReplacementBytes(h).ok THEN b
    ELSE IF ~code_prepare_replace_action(h, b, result).found
    THEN [b EXCEPT !.modified = TRUE]
    ELSE [code_perform_replacement(h, b, result) EXCEPT
                !.undo_stack = DequeAppend(@, code_prepare_replace_action(h, b,
                                                                          result).action),
                !.redo_stack = <<>>]

\* the loop of _replace_all over results_copy, on either kind of buffer
RECURSIVE CodeReplaceEach(_, _, _, _)
CodeReplaceEach(h, b, results, batch_actions) ==
    IF ~b.is_code_file THEN ReplaceEach(h, b, results, batch_actions)
    ELSE IF results = <<>> THEN [b |-> b, batch_actions |-> batch_actions]
    ELSE IF ~ReplacementBytes(h).ok
              \/ ~code_prepare_replace_action(h, b, Head(results)).found
    THEN CodeReplaceEach(h, b, Tail(results), batch_actions)
    ELSE CodeReplaceEach(h, code_perform_replacement(h, b, Head(results)),
                         Tail(results),
                         Append(batch_actions,
                                code_prepare_replace_action(h, b, Head(results)).action))

\* InputHandler._replace_all
code_replace_all(h, b) ==
    IF h.replace_query = <<>> \/ h.search_results = <<>>
    THEN Handled([h EXCEPT !.replace_mode = FALSE], b)
    ELSE ReplaceDone(code_execute_search(h,
             PushBatch(CodeReplaceEach(h, b, SortDescending(h.search_results), <<>>))))

\* InputHandler._execute_replace
code_execute_replace(h, b) ==
    IF h.replace_query = <<>> \/ h.search_results = <<>> \/ h.current_result_index < 0
    THEN Handled([h EXCEPT !.replace_mode = FALSE], b)
    ELSE ReplaceDone(code_execute_search(h,
             code_replace_match(h, b, h.search_results[h.current_result_index + 1])))

\* InputHandler.handle_input while search_mode or replace_mode is on, on
\* either kind of buffer
code_mode_input(h, b, ch) ==
    IF ch = 10
    THEN IF h.search_mode THEN code_execute_search(h, b) ELSE code_execute_replace(h, b)
    ELSE IF ch = 1 /\ h.replace_mode THEN code_replace_all(h, b)
    ELSE mode_input(h, b, ch)

\* command_handlers[ch](): the arrows 260, 261, 259, 258, Home 262, End 360,
\* Page Up 339, Page Down 338, Delete 330, Backspace 263, Enter, Tab,
\* Ctrl+F 6, Ctrl+R 18, Ctrl+B 2, Ctrl+Y 25, Ctrl+K 11, Ctrl+N 14
code_command(h, b, ch) ==
    CASE ch = 260 -> Handled(h, code_move_left(b))
      [] ch = 261 -> Handled(h, code_move_right(b))
      [] ch = 259 -> Handled(h, code_move_up(b))
      [] ch = 258 -> Handled(h, code_move_down(b))
      [] ch = 262 -> Handled(h, code_move_line_start(b))
      [] ch = 360 -> Handled(h, code_move_line_end(b))
      [] ch = 339 -> Handled(h, code_page_up(b))
      [] ch = 338 -> Handled(h, code_page_down(b))
      [] ch = 330 -> Handled(h, code_delete_char(b))
      [] ch = 263 -> Handled(h, code_backspace(b))
      [] ch = 10 -> Handled(h, code_handle_enter(b))
      [] ch = 9 /\ b.is_code_file /\ b.edit_mode -> Handled(h, code_handle_tab(b))
      [] ch = 6 -> Handled(start_search(h), b)
      [] ch = 18 -> Handled(start_replace(h), b)
      [] ch = 2 -> Handled(h, undo(b).b)
      [] ch = 25 -> Handled(h, redo(b).b)
      [] ch = 11 -> Handled(h, editor_cut_line(b))
      [] ch = 14 -> code_find_next(h, b)
      [] OTHER -> Handled(h, b)

\* InputHandler.handle_input on either kind of buffer, insert mode off
code_handle_input(h, b, ch) ==
    IF h.search_mode \/ h.replace_mode THEN code_mode_input(h, b, ch)
    ELSE IF ch = 27 THEN Handled(h, b)
    ELSE IF b.is_code_file /\ b.edit_mode /\ 32 <= ch /\ ch <= 126
    THEN Handled(h, handle_code_input(b, ch))
    ELSE code_command(h, b, ch)

----------------------------------------------------------------------------
(* SpecCode: the keys of a user who edits one text buffer, loaded from a   *)
(* file or made for a file that is not there                               *)

\* keys handled in one run
MaxCodeKeys == 4

\* the files loaded: "A\n", "AAA\nB\n", "B\nAB"
CodeContents == {<<65, 10>>, <<65, 65, 65, 10, 66, 10>>, <<66, 10, 65, 66>>}

InitCode ==
    /\ cfg \in CodeContents
    /\ buf \in {load_resident_file(BufferInit(<<>>), "f", ResidentFile(cfg), "Python"),
                new_file_buffer("g")}
    /\ ih = NoHandler
    /\ disk = NoDisk
    /\ pc = "idle" /\ ra = NoReplaceAll /\ wm = NoWindows
    /\ nops = 0

\* a key handled, with the handler and the buffer after it
CodeHandled(out) ==
    /\ Len(out.ih.search_query) <= 1
    /\ Len(out.ih.replace_query) <= 1
    /\ Len(out.b.code_lines) <= MaxLines
    /\ \A i \in 1..Len(out.b.code_lines) : Len(out.b.code_lines[i]) <= MaxLen
    /\ ih' = out.ih
    /\ buf' = out.b
    /\ nops' = nops + 1
    /\ UNCHANGED <<cfg, wm, pc, ra>>

CodeKey(ch) ==
    /\ nops < MaxCodeKeys
    /\ \E out \in {code_handle_input(ih, buf, ch)} : CodeHandled(out)

\* Left, Right, Up, Down, Home, End, Page Up, Page Down
CursorKey ==
    \E ch \in {260, 261, 259, 258, 262, 360, 339, 338} : CodeKey(ch) /\ UNCHANGED disk
\* 'A', Enter, Tab
TextKey == \E ch \in {65, 10, 9} : CodeKey(ch) /\ UNCHANGED disk
\* Delete, Backspace, Ctrl+K
EraseKey == \E ch \in {330, 263, 11} : CodeKey(ch) /\ UNCHANGED disk

NextCode == CursorKey \/ TextKey \/ EraseKey

SpecCode == InitCode /\ [][NextCode]_vars

----------------------------------------------------------------------------
(* SpecCodeSearch: the keys of a user who searches and replaces in one     *)
(* text buffer                                                             *)

\* keys handled in one run
MaxSearchKeys == 7

SearchKeyHandled(ch) ==
    /\ nops < MaxSearchKeys
    /\ \E out \in {code_handle_input(ih, buf, ch)} : CodeHandled(out)

\* Ctrl+F, Ctrl+R, Ctrl+N, Ctrl+A, Escape
SearchKey == \E ch \in {6, 18, 14, 1, 27} : SearchKeyHandled(ch) /\ UNCHANGED disk
\* 'A', 'C', Enter, Backspace
SearchTextKey == \E ch \in {65, 67, 10, 127} : SearchKeyHandled(ch) /\ UNCHANGED disk
\* Ctrl+B, Ctrl+Y
SearchUndoKey == \E ch \in {2, 25} : SearchKeyHandled(ch) /\ UNCHANGED disk

NextCodeSearch == SearchKey \/ SearchTextKey \/ SearchUndoKey

SpecCodeSearch == InitCode /\ [][NextCodeSearch]_vars

\* the line at the cursor, the empty line when there is none
CursorLine == get_code_line(buf, buf.cursor_line)

\* C36: in text mode, after every key that mutates the text, types a
\* character, cuts a line, moves the cursor, undoes or redoes, the cursor is
\* in range: 0 <= cursor_line < max(1, number of lines) and
\* 0 <= cursor_column <= length of the line at cursor_line.
C36_TextCursorInRange ==
    buf.is_code_file =>
        /\ 0 <= buf.cursor_line
        /\ buf.cursor_line < Max(1, Len(buf.code_lines))
        /\ 0 <= buf.cursor_column
        /\ buf.cursor_column <= Len(CursorLine)

\* Enter in replace mode replaces the current match of a text buffer
CodeReplaceStep ==
    /\ ih.replace_mode /\ ~ih'.replace_mode
    /\ buf.is_code_file
    /\ buf'.undo_stack # buf.undo_stack
    /\ Last(buf'.undo_stack).action_type = "replace_line"

\* the replacement typed is no match of the text searched for
ReplacementDiffers ==
    /\ ih.search_type = "text"
    /\ ~MatchesAt(Utf8Encode(ih.replace_query), 0, ih.search_query, "text",
                  ih.case_sensitive)

\* C38: in text mode the search works on the current text of the buffer: a
\* match that was just replaced by text that does not match is not among
\* the results of the search re-run after the replacement.
C38_SearchSeesReplacement ==
    [][(CodeReplaceStep /\ ReplacementDiffers) =>
          ih.search_results[ih.current_result_index + 1].position
              \notin Positions(ih'.search_results)]_vars

----------------------------------------------------------------------------
(* InputHandler.handle_input whole: the three input modes and the keys    *)
(* outside them, over the buffers of the editor                            *)

\* a handler that acted on the active buffer
OnActive(out, w, d) == Edited(out.ih, SetActive(w, out.b), d, FALSE)

\* handle_input with no input mode on: Escape (followed by next_ch), a typed
\* character of a text buffer, command_handlers[ch]()
normal_input(h, w, d, ch, next_ch, io_ok) ==
    IF ch = 27
    THEN IF 49 <= next_ch /\ next_ch <= 57
         THEN Edited(h, switch_buffer(w, next_ch - 49), d, FALSE)
         ELSE Edited(h, w, d, FALSE)
    ELSE IF Active(w).is_code_file /\ Active(w).edit_mode /\ 32 <= ch /\ ch <= 126
    THEN Edited(h, SetActive(w, handle_code_input(Active(w), ch)), d, FALSE)
    ELSE IF ch \in {24, 23, 15} THEN editor_command(h, w, d, ch, io_ok)
    ELSE OnActive(code_command(h, Active(w), ch), w, d)

\* the mode block handing the keys it does not know to the command handlers
modal_input_falling_through(h, w, d, ch, next_ch, io_ok) ==
    IF ch = 10
    THEN IF h.open_mode THEN execute_open(h, w, d, io_ok)
         ELSE IF h.search_mode THEN OnActive(code_execute_search(h, Active(w)), w, d)
         ELSE OnActive(code_execute_replace(h, Active(w)), w, d)
    ELSE IF ch = 27
    THEN IF 49 <= next_ch /\ next_ch <= 57
         THEN Edited(h, switch_buffer(w, next_ch - 49), d, FALSE)
         ELSE IF next_ch = 99
         THEN Edited([h EXCEPT !.case_sensitive = ~@], w, d, FALSE)
         ELSE IF h.open_mode
         THEN Edited([h EXCEPT !.open_mode = FALSE, !.open_query = <<>>], w, d, FALSE)
         ELSE IF h.search_mode
         THEN Edited([h EXCEPT !.search_mode = FALSE, !.search_query = <<>>], w, d, FALSE)
         ELSE Edited([h EXCEPT !.replace_mode = FALSE, !.replace_query = <<>>], w, d, FALSE)
    ELSE IF ch = 9 /\ h.search_mode
    THEN Edited(cycle_search_type(h, Active(w)), w, d, FALSE)
    ELSE IF ch = 1 /\ h.replace_mode
    THEN OnActive(code_replace_all(h, Active(w)), w, d)
    ELSE IF ch \in {263, 127}
    THEN IF h.open_mode /\ h.open_query # <<>>
         THEN Edited([h EXCEPT !.open_query = Front(@)], w, d, FALSE)
         ELSE IF h.search_mode /\ h.search_query # <<>>
         THEN Edited([h EXCEPT !.search_query = Front(@)], w, d, FALSE)
         ELSE IF h.replace_mode /\ h.replace_query # <<>>
         THEN Edited([h EXCEPT !.replace_query = Front(@)], w, d, FALSE)
         ELSE Edited(h, w, d, FALSE)
    ELSE IF 32 <= ch /\ ch <= 126
    THEN IF h.open_mode THEN Edited([h EXCEPT !.open_query = Append(@, ch)], w, d, FALSE)
         ELSE IF h.search_mode
         THEN Edited([h EXCEPT !.search_query = Append(@, ch)], w, d, FALSE)
         ELSE Edited([h EXCEPT !.replace_query = Append(@, ch)], w, d, FALSE)
    ELSE normal_input(h, w, d, ch, next_ch, io_ok)

\* handle_input while open_mode, search_mode or replace_mode is on (lines
\* 83-147): Enter, Escape (followed by next_ch, -1 when no key follows), Tab,
\* Ctrl+A, Backspace, a printable character; every other key is swallowed
modal_input(h, w, d, ch, next_ch, io_ok) ==
    IF ch = 10
    THEN IF h.open_mode THEN execute_open(h, w, d, io_ok)
         ELSE IF h.search_mode THEN OnActive(code_execute_search(h, Active(w)), w, d)
         ELSE OnActive(code_execute_replace(h, Active(w)), w, d)
    ELSE IF ch = 27
    THEN IF 49 <= next_ch /\ next_ch <= 57
         THEN Edited(h, switch_buffer(w, next_ch - 49), d, FALSE)
         ELSE IF next_ch = 99
         THEN Edited([h EXCEPT !.case_sensitive = ~@], w, d, FALSE)
         ELSE IF h.open_mode
         THEN Edited([h EXCEPT !.open_mode = FALSE, !.open_query = <<>>], w, d, FALSE)
         ELSE IF h.search_mode
         THEN Edited([h EXCEPT !.search_mode = FALSE, !.search_query = <<>>], w, d, FALSE)
         ELSE Edited([h EXCEPT !.replace_mode = FALSE, !.replace_query = <<>>], w, d, FALSE)
    ELSE IF ch = 9 /\ h.search_mode
    THEN Edited(cycle_search_type(h, Active(w)), w, d, FALSE)
    ELSE IF ch = 1 /\ h.replace_mode
    THEN OnActive(code_replace_all(h, Active(w)), w, d)
    ELSE IF ch \in {263, 127}
    THEN IF h.open_mode /\ h.open_query # <<>>
         THEN Edited([h EXCEPT !.open_query = Front(@)], w, d, FALSE)
         ELSE IF h.search_mode /\ h.search_query # <<>>
         THEN Edited([h EXCEPT !.search_query = Front(@)], w, d, FALSE)
         ELSE IF h.replace_mode /\ h.replace_query # <<>>
         THEN Edited([h EXCEPT !.replace_query = Front(@)], w, d, FALSE)
         ELSE Edited(h, w, d, FALSE)
    ELSE IF 32 <= ch /\ ch <= 126
    THEN IF h.open_mode THEN Edited([h EXCEPT !.open_query = Append(@, ch)], w, d, FALSE)
         ELSE IF h.search_mode
         THEN Edited([h EXCEPT !.search_query = Append(@, ch)], w, d, FALSE)
         ELSE Edited([h EXCEPT !.replace_query = Append(@, ch)], w, d, FALSE)
    ELSE Edited(h, w, d, FALSE)

\* InputHandler.handle_input, insert mode off
editor_handle_input(h, w, d, ch, next_ch, io_ok) ==
    IF h.open_mode \/ h.search_mode \/ h.replace_mode
    THEN modal_input(h, w, d, ch, next_ch, io_ok)
    ELSE normal_input(h, w, d, ch, next_ch, io_ok)

----------------------------------------------------------------------------
(* SpecModes: the keys of a user who opens, saves, searches, replaces and  *)
(* edits, in an editor started as in SpecEditor                            *)

\* keys handled in one run
MaxModeKeys == 6

\* key ch handled, with what it leaves
ModesHandled(out, ch) ==
    /\ Len(out.ih.search_query) <= 1
    /\ Len(out.ih.replace_query) <= 1
    /\ \A i \in 1..Len(out.wm.buffers) : Len(out.wm.buffers[i].data) <= MaxLen
    /\ pc = "idle" /\ nops < MaxModeKeys
    /\ Len(out.wm.buffers) <= MaxBuffers
    /\ out.ih.open_query \in {<<>>, <<102>>, ErrorQuery}
    /\ \A i \in 1..Len(out.wm.buffers) :
            /\ Len(out.wm.buffers[i].code_lines) <= MaxLines
            /\ \A j \in 1..Len(out.wm.buffers[i].code_lines) :
                    Len(out.wm.buffers[i].code_lines[j]) <= MaxQuery
    /\ ih' = [out.ih EXCEPT !.last_key = ch]
    /\ wm' = out.wm
    /\ buf' = Active(out.wm)
    /\ disk' = out.disk
    /\ pc' = IF out.exit THEN "exited" ELSE pc
    /\ nops' = nops + 1
    /\ UNCHANGED <<cfg, ra>>

ModesKey(ch, next_ch, io_ok) ==
    \E out \in {editor_handle_input(ih, wm, disk, ch, next_ch, io_ok)} :
        ModesHandled(out, ch)

\* Ctrl+O, Ctrl+W, Ctrl+F, Ctrl+R
StartModeKey ==
    \E ch \in {15, 23, 6, 18} : ModesKey(ch, -1, TRUE) /\ UNCHANGED cfg
\* Enter; the open or the write of the file succeeds or fails
ModeEnterKey == \E io_ok \in BOOLEAN : ModesKey(10, -1, io_ok) /\ UNCHANGED cfg
\* Escape, Alt+2, Alt+c
ModeEscapeKey == \E next_ch \in {-1, 50, 99} : ModesKey(27, next_ch, TRUE) /\ UNCHANGED cfg
\* 'A', 'f', Backspace, Tab, Ctrl+A
QueryKey == \E ch \in {65, 102, 127, 9, 1} : ModesKey(ch, -1, TRUE) /\ UNCHANGED cfg
\* Right, Ctrl+K, Ctrl+B, Ctrl+N, Delete
BufferKey == \E ch \in {261, 11, 2, 14, 330} : ModesKey(ch, -1, TRUE) /\ UNCHANGED cfg

NextModes == StartModeKey \/ ModeEnterKey \/ ModeEscapeKey \/ QueryKey \/ BufferKey

SpecModes == InitEditor /\ [][NextModes]_vars

\* the input modes that are on
ModesOn(h) ==
    {m \in {"open", "search", "replace"} :
        \/ m = "open" /\ h.open_mode
        \/ m = "search" /\ h.search_mode
        \/ m = "replace" /\ h.replace_mode}

\* a key handled while an input mode is on that is neither Enter nor the
\* replace-all of replace mode
SwallowedKey ==
    /\ ModesOn(ih) # {}
    /\ nops' # nops
    /\ ih'.last_key # 10
    /\ ~(ih'.last_key = 1 /\ ih.replace_mode)

\* C35: at most one of open_mode, search_mode and replace_mode is on; while
\* one is on, no key but that mode's Enter and the replace-all of replace
\* mode moves a cursor, changes the content of a buffer, writes a file or
\* ends the editor.
C35_ModesExclusive ==
    /\ [](Cardinality(ModesOn(ih)) <= 1)
    /\ [][SwallowedKey => (wm'.buffers = wm.buffers /\ disk' = disk /\ pc' = pc)]_vars

\* Ctrl+K pressed in replace mode, on a buffer that holds a match
C35_Witness ==
    /\ ih.replace_mode /\ ih.last_key = 11
    /\ ih.search_results # <<>>
    /\ Active(wm).data # <<>>

====
